---------------------------- MODULE Spec2Model ----------------------------
(***************************************************************************)
(* Model of the sales-helper "product intelligence" core:                  *)
(*   src/src/pricing.py  get_pricing    (price precedence resolution)      *)
(*   src/src/search.py   parse_query, _score_item, search_products         *)
(*   src/src/loader.py   _normalize_*, _process_file (row normalisation)   *)
(*                                                                         *)
(* Text is modelled with TLA+ strings (Len, \o, SubSeq).  Money is an      *)
(* integer count of 1/100000 dollar, so that round(x, 4) is a real         *)
(* rounding step.  pandas' NaN (a missing numeric cell) is the value NaN.  *)
(* Python's None / "" for an optional text argument are both falsy and     *)
(* are both modelled as the empty string.                                  *)
(***************************************************************************)
EXTENDS Integers, Sequences, FiniteSets, TLC

VARIABLES
    master,          \* price_data.master[LoadedKey]   : sequence of master rows
    end_user,        \* price_data.end_user[LoadedKey] : sequence of special rows
    location,        \* price_data.location[LoadedKey] : sequence of special rows
    pricing_call,    \* arguments of the last get_pricing call
    pricing_result,  \* ProductPricing returned by the last get_pricing call
    variants_call,   \* arguments of the last find_variants call
    variants_result, \* list returned by the last find_variants call
    catalog,         \* master_df handed to search_products (with enriched_description)
    item_call,       \* arguments of the last _score_item call
    item_score,      \* value returned by the last _score_item call
    parse_call,      \* argument and result of the last parse_query call
    search_call,     \* arguments of the last search_products call
    search_result,   \* frame returned by the last search_products call
    calls,           \* the calls of one session, in order, with what they returned
    enrich_call,     \* function, argument and result of the last enrichment call
    enrich_prev,     \* the enrichment call before it
    basket,          \* st.session_state.basket : list of item dicts
    basket_log,      \* per part number: adds since it was last out of the basket, qty edited
    basket_call      \* the last operation on the basket

pricing_vars ==
    <<master, end_user, location, pricing_call, pricing_result, variants_call, variants_result>>

search_vars ==
    <<catalog, item_call, item_score, parse_call, search_call, search_result, calls>>

enrich_vars == <<enrich_call, enrich_prev>>

basket_vars == <<basket, basket_log, basket_call>>

-----------------------------------------------------------------------------
(* Bounds of the model *)

\* total number of rows loaded into the three layers of the partition
MaxRows == 2

\* number of rows of the catalog searched
MaxCatalog == 3

\* number of calls of one session
MaxCalls == 3

\* clicks on "Add to Quote" for one part number while it is in the basket
MaxAdds == 3

\* highest value typed into a quantity field
MaxQty == 3

-----------------------------------------------------------------------------
(* Generic helpers on strings and sequences *)

Ch(s, i) == SubSeq(s, i, i)

IsSpace(c) == c \in {" ", "\t", "\n", "\r"}

RECURSIVE LStrip(_)
LStrip(s) == IF Len(s) > 0 /\ IsSpace(Ch(s, 1)) THEN LStrip(Tail(s)) ELSE s

RECURSIVE RStrip(_)
RStrip(s) ==
    IF Len(s) > 0 /\ IsSpace(Ch(s, Len(s)))
    THEN RStrip(SubSeq(s, 1, Len(s) - 1))
    ELSE s

\* str.strip()
Strip(s) == RStrip(LStrip(s))

\* Python truthiness of an optional string: None and "" are falsy
Truthy(s) == s # ""

-----------------------------------------------------------------------------
(* Text: case, character classes, and the regular expressions of search.py.
   A pattern is a sequence of atoms, matched left to right with Python's
   backtracking order (greedy repetition, alternatives in the order written):
     [t |-> "b"]                          \b, a word boundary
     [t |-> "lit", alts |-> <<..>>]       one of the literals, first that works
     [t |-> "rep", cs |-> S, lo, hi]      lo..hi characters of the class S
     [t |-> "end"]                        $, the end of the text
     [t |-> "alt", branches |-> <<..>>]   (?:p1|p2), one of the patterns       *)

Digits   == {"0", "1", "2", "3", "4", "5", "6", "7", "8", "9"}
LowerAZ  == "abcdefghijklmnopqrstuvwxyz"
UpperAZ  == "ABCDEFGHIJKLMNOPQRSTUVWXYZ"
Lowers   == { Ch(LowerAZ, i) : i \in 1..26 }
Uppers   == { Ch(UpperAZ, i) : i \in 1..26 }
\* \w of the re module, on ASCII text
WordChars == Digits \cup Lowers \cup Uppers \cup {"_"}
\* \s of the re module
Spaces   == {" ", "\t", "\n", "\r"}
\* no repetition in this module matches more characters than a text holds
Unbounded == 1000

UpperCh(c) ==
    IF c \in Lowers
    THEN Ch(UpperAZ, CHOOSE i \in 1..26 : Ch(LowerAZ, i) = c)
    ELSE c

\* str.upper()
RECURSIVE Upper(_)
Upper(s) == IF s = "" THEN "" ELSE UpperCh(Ch(s, 1)) \o Upper(Tail(s))

\* needle in hay
Contains(hay, needle) ==
    \E i \in 1..(Len(hay) - Len(needle) + 1) :
        SubSeq(hay, i, i + Len(needle) - 1) = needle

\* s.replace(c, "") for a one-character c
RECURSIVE RemoveChar(_, _)
RemoveChar(s, c) ==
    IF s = "" THEN ""
    ELSE IF Ch(s, 1) = c THEN RemoveChar(Tail(s), c)
    ELSE Ch(s, 1) \o RemoveChar(Tail(s), c)

B == [t |-> "b"]
Lit(alts) == [t |-> "lit", alts |-> alts]
Rep(cs, lo, hi) == [t |-> "rep", cs |-> cs, lo |-> lo, hi |-> hi]

\* \b at the gap before position pos
AtBoundary(s, pos) ==
    LET before == pos > 1 /\ Ch(s, pos - 1) \in WordChars
        after  == pos <= Len(s) /\ Ch(s, pos) \in WordChars
    IN  before # after

\* the number of characters of class cs from pos on, at most hi
RECURSIVE RunLength(_, _, _, _)
RunLength(s, pos, cs, hi) ==
    IF hi = 0 \/ pos > Len(s) \/ Ch(s, pos) \notin cs THEN 0
    ELSE 1 + RunLength(s, pos + 1, cs, hi - 1)

Cons(pos, rest) == IF rest = <<>> THEN <<>> ELSE <<pos>> \o rest

\* MatchFrom(pat, k, s, pos): the atoms k.. of pat matched from position pos of
\* s.  <<>> when they do not match; else the start position of each of these
\* atoms followed by the position after the match.
RECURSIVE MatchFrom(_, _, _, _)
RECURSIVE TryAlts(_, _, _, _, _)
RECURSIVE TryRep(_, _, _, _, _)

TryAlts(pat, k, s, pos, j) ==
    IF j > Len(pat[k].alts) THEN <<>>
    ELSE LET lit  == pat[k].alts[j]
             last == pos + Len(lit) - 1
             rest == IF last <= Len(s) /\ SubSeq(s, pos, last) = lit
                     THEN MatchFrom(pat, k + 1, s, last + 1)
                     ELSE <<>>
         IN  IF rest # <<>> THEN Cons(pos, rest) ELSE TryAlts(pat, k, s, pos, j + 1)

TryRep(pat, k, s, pos, count) ==
    IF count < pat[k].lo THEN <<>>
    ELSE LET rest == MatchFrom(pat, k + 1, s, pos + count)
         IN  IF rest # <<>> THEN Cons(pos, rest) ELSE TryRep(pat, k, s, pos, count - 1)

MatchFrom(pat, k, s, pos) ==
    IF k > Len(pat) THEN <<pos>>
    ELSE CASE pat[k].t = "b" ->
                IF AtBoundary(s, pos) THEN Cons(pos, MatchFrom(pat, k + 1, s, pos)) ELSE <<>>
           [] pat[k].t = "lit" -> TryAlts(pat, k, s, pos, 1)
           [] pat[k].t = "rep" ->
                TryRep(pat, k, s, pos, RunLength(s, pos, pat[k].cs, pat[k].hi))

\* the text atoms i..j of a match m consumed
Group(s, m, i, j) == SubSeq(s, m[i], m[j + 1] - 1)

MatchEnd(m) == m[Len(m)]

\* pattern.finditer(s): the non-overlapping matches, leftmost first
RECURSIVE FindIter(_, _, _)
FindIter(pat, s, pos) ==
    IF pos > Len(s) THEN <<>>
    ELSE LET m == MatchFrom(pat, 1, s, pos)
         IN  IF m = <<>> THEN FindIter(pat, s, pos + 1)
             ELSE <<m>> \o FindIter(pat, s, IF MatchEnd(m) > pos THEN MatchEnd(m) ELSE pos + 1)

\* a replacement template: literal pieces and group references (\1, \2)
Text(v) == [k |-> "lit", v |-> v]
Ref(i, j) == [k |-> "grp", i |-> i, j |-> j]

RECURSIVE Expand(_, _, _)
Expand(template, s, m) ==
    IF template = <<>> THEN ""
    ELSE (IF Head(template).k = "lit" THEN Head(template).v
          ELSE Group(s, m, Head(template).i, Head(template).j))
         \o Expand(Tail(template), s, m)

\* pattern.sub(template, s)
RECURSIVE Sub(_, _, _, _)
Sub(pat, template, s, pos) ==
    IF pos > Len(s) THEN ""
    ELSE LET m == MatchFrom(pat, 1, s, pos)
         IN  IF m = <<>> \/ MatchEnd(m) = pos
             THEN Ch(s, pos) \o Sub(pat, template, s, pos + 1)
             ELSE Expand(template, s, m) \o Sub(pat, template, s, MatchEnd(m))

-----------------------------------------------------------------------------
(* Numbers: money in units of 1/100000, NaN for a missing cell *)

NaN == -2000000000

\* pd.notna(x)
notna(x) == x # NaN

\* mutant: the guard written with >= instead of >
IsPositivePrice_NonNegative(p) == p # NaN /\ p >= 0

\* the guard "pd.notna(p) and float(p) > 0" of every layer
IsPositivePrice(p) == notna(p) /\ p > 0

\* round(x, 4) on a value counted in 1/100000: to the nearest multiple of 10.
\* A value ending in 5 is a decimal tie; Python rounds the binary double, which
\* for an exactly representable tie is round-half-even.
Round4(x) ==
    LET r == x % 10
        down == x - r
    IN  IF r < 5 THEN down
        ELSE IF r > 5 THEN down + 10
        ELSE IF (down \div 10) % 2 = 0 THEN down ELSE down + 10


-----------------------------------------------------------------------------
(* loader.py: normalised rows of one distributor partition *)

\* the distributor key whose partition the three variables hold
LoadedKey == "D1"

\* _safe_str: fillna("").astype(str).str.strip()
safe_str(s) == Strip(s)

\* _safe_float(...).fillna(0) of the two surcharge columns
fillna0(x) == IF notna(x) THEN x ELSE 0

\* _normalize_master, one row (numeric cells arrive as a number or NaN)
normalize_master(raw) ==
    [part_number |-> safe_str(raw.part_number),
     description |-> safe_str(raw.description),
     list_price  |-> raw.list_price,
     tier_price  |-> raw.tier_price]

\* _normalize_special, one row
normalize_special(raw) ==
    [part_number      |-> safe_str(raw.part_number),
     description      |-> safe_str(raw.description),
     price            |-> raw.price,
     alloy_surcharge  |-> fillna0(raw.alloy_surcharge),
     tariff_surcharge |-> fillna0(raw.tariff_surcharge),
     customer_name    |-> safe_str(raw.customer_name),
     end_user_name    |-> safe_str(raw.end_user_name),
     city             |-> safe_str(raw.city),
     state            |-> safe_str(raw.state)]

-----------------------------------------------------------------------------
(* pricing.py *)

\* mutant: __post_init__ forgets the surcharges
PriceEntry_PriceOnly(price, source, surcharges, context) ==
    [price      |-> price,
     source     |-> source,
     surcharges |-> surcharges,
     total      |-> Round4(price),
     context    |-> context]

\* PriceEntry(...) with __post_init__: total = round(price + surcharges, 4)
PriceEntry(price, source, surcharges, context) ==
    [price      |-> price,
     source     |-> source,
     surcharges |-> surcharges,
     total      |-> Round4(price + surcharges),
     context    |-> context]

\* mutant: the priorities of the module docstring (80, 50, 10, 5) as the key
precedence_priority(source) ==
    CASE source = "Location Special" -> 80
      [] source = "End User"         -> 50
      [] source = "Master Tier"      -> 10
      [] source = "Master List"      -> 5
      [] OTHER                       -> 99

\* precedence.get(p.source, 99)
precedence(source) ==
    CASE source = "Location Special" -> 1
      [] source = "End User"         -> 2
      [] source = "Master Tier"      -> 3
      [] source = "Master List"      -> 4
      [] OTHER                       -> 99

\* mutant: the sort key is the total alone
KeyLess_ByTotal(a, b) == a.total < b.total

\* key(a) < key(b) for key = (precedence, total), compared as Python tuples
KeyLess(a, b) ==
    \/ precedence(a.source) < precedence(b.source)
    \/ precedence(a.source) = precedence(b.source) /\ a.total < b.total

\* list.sort is stable: e goes after every element whose key is not greater
RECURSIVE InsertSorted(_, _)
InsertSorted(sorted, e) ==
    IF sorted = <<>> THEN <<e>>
    ELSE IF KeyLess(e, Head(sorted)) THEN <<e>> \o sorted
    ELSE <<Head(sorted)>> \o InsertSorted(Tail(sorted), e)

RECURSIVE SortPrices(_)
SortPrices(entries) ==
    IF entries = <<>> THEN <<>>
    ELSE InsertSorted(SortPrices(SubSeq(entries, 1, Len(entries) - 1)),
                      entries[Len(entries)])

\* price_data.<layer>.get(distributor_key, pd.DataFrame())
PartitionOf(df, distributor_key) == IF distributor_key = LoadedKey THEN df ELSE <<>>

\* df[df["part_number"] == pn]
MatchesOf(df, pn) == SelectSeq(df, LAMBDA row : row.part_number = pn)

\* the entries one master row appends: Master List, then Master Tier
MasterEntries(row) ==
    (IF IsPositivePrice(row.list_price)
     THEN <<PriceEntry(row.list_price, "Master List", 0, "")>> ELSE <<>>)
    \o
    (IF IsPositivePrice(row.tier_price)
     THEN <<PriceEntry(row.tier_price, "Master Tier", 0, "")>> ELSE <<>>)

\* context = eu_name if eu_name and eu_name != "nan" else cust_name
EndUserContext(row) ==
    LET eu_name   == Strip(row.end_user_name)
        cust_name == Strip(row.customer_name)
    IN  IF eu_name # "" /\ eu_name # "nan" THEN eu_name ELSE cust_name

\* mutant: the filter compares the context label only
EndUserApplicable_ContextOnly(row, selected_end_user) ==
    ~ (selected_end_user # "" /\ EndUserContext(row) # selected_end_user)

\* the end-user filter: the row is skipped (continue) iff a filter is selected
\* and context, eu_name and cust_name all differ from it
EndUserApplicable(row, selected_end_user) ==
    ~ ( /\ Truthy(selected_end_user)
        /\ EndUserContext(row) # selected_end_user
        /\ Strip(row.end_user_name) # selected_end_user
        /\ Strip(row.customer_name) # selected_end_user )

\* float(row.get("alloy_surcharge", 0) or 0) + float(row.get("tariff_surcharge", 0) or 0)
SurchargesOf(row) == row.alloy_surcharge + row.tariff_surcharge

EndUserEntries(row) ==
    IF IsPositivePrice(row.price)
    THEN <<PriceEntry(row.price, "End User", SurchargesOf(row), EndUserContext(row))>>
    ELSE <<>>

\* " -- ".join(loc_parts): customer, then "city, state" or city alone
LocationContext(row) ==
    LET cust  == Strip(row.customer_name)
        city  == Strip(row.city)
        state == Strip(row.state)
        has(x) == x # "" /\ x # "nan"
        place == IF has(city) /\ has(state) THEN city \o ", " \o state
                 ELSE IF has(city) THEN city ELSE ""
    IN  IF has(cust) /\ place # "" THEN cust \o " -- " \o place
        ELSE IF has(cust) THEN cust
        ELSE place

\* mutant: the location loop without its filter
LocationApplicable_Unfiltered(row, selected_location) == TRUE

\* the location filter: the row is skipped iff a filter is selected and the
\* composed label differs from it
LocationApplicable(row, selected_location) ==
    ~ (Truthy(selected_location) /\ LocationContext(row) # selected_location)

LocationEntries(row) ==
    IF IsPositivePrice(row.price)
    THEN <<PriceEntry(row.price, "Location Special", SurchargesOf(row), LocationContext(row))>>
    ELSE <<>>

\* [f(row) for row in rows], concatenated
RECURSIVE EntriesOf(_, _)
EntriesOf(rows, layer) ==
    IF rows = <<>> THEN <<>>
    ELSE (CASE layer = "master"   -> MasterEntries(Head(rows))
            [] layer = "end_user" -> EndUserEntries(Head(rows))
            [] layer = "location" -> LocationEntries(Head(rows)))
         \o EntriesOf(Tail(rows), layer)

\* "if not result.description: result.description = str(row.get(...))" over
\* the rows in the order the three loops visit them
RECURSIVE FirstDescription(_)
FirstDescription(rows) ==
    IF rows = <<>> THEN ""
    ELSE IF Head(rows).description # "" THEN Head(rows).description
    ELSE FirstDescription(Tail(rows))

\* rows of a special layer that pass its filter, in frame order
ApplicableEndUser(rows, selected_end_user) ==
    SelectSeq(rows, LAMBDA row : EndUserApplicable(row, selected_end_user))

ApplicableLocation(rows, selected_location) ==
    SelectSeq(rows, LAMBDA row : LocationApplicable(row, selected_location))

\* get_pricing: the ProductPricing it returns (uom, package_qty, weight and upc
\* are copied beside description from the same first row and are left out)
get_pricing(part_number, distributor_key, selected_end_user, selected_location) ==
    LET pn        == Strip(part_number)
        m_rows    == MatchesOf(PartitionOf(master, distributor_key), pn)
        eu_rows   == ApplicableEndUser(
                        MatchesOf(PartitionOf(end_user, distributor_key), pn),
                        selected_end_user)
        loc_rows  == ApplicableLocation(
                        MatchesOf(PartitionOf(location, distributor_key), pn),
                        selected_location)
        appended  == EntriesOf(m_rows, "master")
                     \o EntriesOf(eu_rows, "end_user")
                     \o EntriesOf(loc_rows, "location")
        sorted    == SortPrices(appended)
    IN  [part_number |-> part_number,
         description |-> FirstDescription(m_rows \o eu_rows \o loc_rows),
         best_price  |-> IF sorted = <<>> THEN <<>> ELSE <<sorted[1]>>,
         all_prices  |-> sorted]

\* str.startswith
StartsWith(text, prefix) ==
    Len(prefix) <= Len(text) /\ SubSeq(text, 1, Len(prefix)) = prefix

\* str.split(): the runs of non-whitespace characters
RECURSIVE SplitFrom(_, _, _)
SplitFrom(text, pos, word) ==
    IF pos > Len(text) THEN (IF word = "" THEN <<>> ELSE <<word>>)
    ELSE IF IsSpace(Ch(text, pos))
         THEN (IF word = "" THEN <<>> ELSE <<word>>) \o SplitFrom(text, pos + 1, "")
         ELSE SplitFrom(text, pos + 1, word \o Ch(text, pos))

Split(text) == SplitFrom(text, 1, "")

\* " ".join(words)
RECURSIVE Join(_)
Join(words) ==
    IF words = <<>> THEN ""
    ELSE IF Len(words) = 1 THEN words[1]
    ELSE words[1] \o " " \o Join(Tail(words))

\* candidates.head(15)
VariantCap == 15

\* identity = " ".join(desc_tokens[:4]) if len(desc_tokens) >= 4 else desc_upper
Identity(description) ==
    LET desc_upper  == Upper(description)
        desc_tokens == Split(desc_upper)
    IN  IF Len(desc_tokens) >= 4 THEN Join(SubSeq(desc_tokens, 1, 4)) ELSE desc_upper

\* the mask of candidates: part_number.str.startswith(prefix) |
\* description.str.upper().str.contains(identity, regex=False)
IsCandidate(row, prefix, identity) ==
    \/ StartsWith(row.part_number, prefix)
    \/ Contains(Upper(row.description), identity)

VariantPrice_ListFirst(row) ==
    IF IsPositivePrice(row.list_price) THEN <<row.list_price>>
    ELSE IF IsPositivePrice(row.tier_price) THEN <<row.tier_price>>
    ELSE <<>>

\* price = tier_p if positive else (list_p if positive else None); None is <<>>
VariantPrice(row) ==
    IF IsPositivePrice(row.tier_price) THEN <<row.tier_price>>
    ELSE IF IsPositivePrice(row.list_price) THEN <<row.list_price>>
    ELSE <<>>

\* the dict appended for one candidate (uom and package_qty are copied beside
\* description and are left out)
Variant(row) ==
    [part_number |-> row.part_number, description |-> row.description,
     price |-> VariantPrice(row)]

RECURSIVE Variants(_)
Variants(rows) ==
    IF rows = <<>> THEN <<>> ELSE <<Variant(Head(rows))>> \o Variants(Tail(rows))

find_variants(part_number, description, distributor_key) ==
    LET master_df  == PartitionOf(master, distributor_key)
        pn         == Strip(part_number)
        prefix     == SubSeq(pn, 1, IF Len(pn) < 6 THEN Len(pn) ELSE 6)
        identity   == Identity(description)
        candidates == SelectSeq(master_df, LAMBDA row : IsCandidate(row, prefix, identity))
        others     == SelectSeq(candidates, LAMBDA row : row.part_number # pn)
    IN  IF master_df = <<>> THEN <<>>
        ELSE Variants(SubSeq(others, 1,
                             IF Len(others) < VariantCap THEN Len(others) ELSE VariantCap))


-----------------------------------------------------------------------------
(* search.py: the query parser *)

\* _DIAMETER_PATTERNS[0]: \b0?\.(\d{3})\b, the group is atom 4
DiameterDecimalPattern == <<B, Lit(<<"0", "">>), Lit(<<".">>), Rep(Digits, 3, 3), B>>

\* _DIAMETER_PATTERNS[1]: \b(\d+)/(\d+)\b, the groups are atoms 2 and 4
DiameterFractionPattern ==
    <<B, Rep(Digits, 1, Unbounded), Lit(<<"/">>), Rep(Digits, 1, Unbounded), B>>

\* _ALLOY_PATTERN: \b(?:ER|E)?(\d{2,4}[A-Z]?S?-?\d{0,3}[A-Z]{0,3})\b, re.IGNORECASE,
\* applied to the uppercased text; the group is atoms 3..8
AlloyPattern ==
    <<B, Lit(<<"ER", "E", "">>), Rep(Digits, 2, 4), Rep(Uppers, 0, 1), Rep({"S"}, 0, 1),
      Rep({"-"}, 0, 1), Rep(Digits, 0, 3), Rep(Uppers, 0, 3), B>>

_KNOWN_ALLOYS ==
    {"70S6", "70S-6", "70S3", "70S-3", "80SD2", "80S-D2",
     "308L", "308", "309L", "309", "316L", "316", "317L",
     "7018", "7014", "7024", "6010", "6011", "6013",
     "4043", "5356", "5183", "5556", "4047", "4145",
     "2209", "2594", "71T1", "71T9", "71T8", "71T11",
     "80NI1", "80S"}

\* _PKG_WEIGHT_PATTERN: \b(\d+)\s*(?:#|lbs?|lb)\b, re.IGNORECASE (matched on the
\* uppercased text); the group is atom 2
PkgWeightPattern ==
    <<B, Rep(Digits, 1, Unbounded), Rep(Spaces, 0, Unbounded), Lit(<<"#", "LBS", "LB">>), B>>

\* _PKG_TYPE_PATTERN, re.IGNORECASE (matched on the uppercased text)
PkgTypePattern ==
    <<B, Lit(<<"SPOOL", "DRUM", "COIL", "BASKET", "CARTON", "TUBE", "HERMETIC",
               "VACPAK", "PALLET", "BULK", "MINI">>), B>>

\* _EXPANSIONS, in table order: <<pattern, replacement>> (re.I, applied to the
\* uppercased text)
_EXPANSIONS == <<
    <<  <<B, Lit(<<"S6">>), B>>, "70S 6"  >>,
    <<  <<B, Lit(<<"S-6">>), B>>, "70S 6"  >>,
    <<  <<B, Lit(<<"S3">>), B>>, "70S 3"  >>,
    <<  <<B, Lit(<<"S-3">>), B>>, "70S 3"  >>,
    <<  <<B, Lit(<<"ER70S">>), Rep({"-", "."}, 0, 1), Lit(<<"6">>), B>>, "70S 6"  >>,
    <<  <<B, Lit(<<"70S">>), Rep({"-", "."}, 0, 1), Lit(<<"6">>), B>>, "70S 6"  >>,
    <<  <<B, Lit(<<"ER70S">>), Rep({"-", "."}, 0, 1), Lit(<<"3">>), B>>, "70S 3"  >>,
    <<  <<B, Lit(<<"70S">>), Rep({"-", "."}, 0, 1), Lit(<<"3">>), B>>, "70S 3"  >>,
    <<  <<B, Lit(<<"DUAL">>), Rep(Spaces, 0, Unbounded), Lit(<<"SHIELD">>), B>>, "DS"  >>,
    <<  <<B, Lit(<<"CORESHIELD">>), B>>, "CS"  >>,
    <<  <<B, Lit(<<"ATOM">>), Rep(Spaces, 0, Unbounded), Lit(<<"ARC">>), B>>, "AA"  >>,
    <<  <<B, Lit(<<"SPOOLARC">>), B>>, "SA"  >>,
    <<  <<B, Lit(<<"SUREWELD">>), B>>, "SUREWELD"  >>,
    <<  <<B, Lit(<<"AUTOSHIELD">>), B>>, "AS"  >>,
    <<  <<B, Lit(<<"COREWELD">>), B>>, "CW"  >>,
    <<  <<B, Lit(<<"ALCOTEC">>), B>>, "ER"  >>,
    <<  <<B, Lit(<<"SHIELD">>), Rep({"-", " "}, 0, 1), Lit(<<"BRITE">>), B>>, "SB"  >>,
    <<  <<B, Lit(<<"EXATON">>), B>>, "EXATON"  >>,
    <<  <<B, Lit(<<"SPRAYMASTER">>), B>>, "SPRAY MASTER"  >>,
    <<  <<B, Lit(<<"SPRAY">>), Rep(Spaces, 0, Unbounded), Lit(<<"MASTER">>), B>>, "SPRAY MASTER"  >>,
    <<  <<B, Lit(<<"TIG">>), Rep(Spaces, 0, Unbounded), Lit(<<"ROD">>), B>>, "TIG"  >>,
    <<  <<B, Lit(<<"TIG">>), Rep(Spaces, 0, Unbounded), Lit(<<"WIRE">>), B>>, "TIG"  >>,
    <<  <<B, Lit(<<"MIG">>), Rep(Spaces, 0, Unbounded), Lit(<<"WIRE">>), B>>, "WELD"  >>,
    <<  <<B, Lit(<<"STICK">>), B>>, "ELECTRODE"  >>,
    <<  <<B, Lit(<<"SMAW">>), B>>, "ELECTRODE"  >>,
    <<  <<B, Lit(<<"FCAW">>), B>>, "DS"  >>,
    <<  <<B, Lit(<<"GMAW">>), B>>, "WELD"  >>,
    <<  <<B, Lit(<<"FLUX">>), Rep({"-", " "}, 0, 1), Lit(<<"CORE">>), B>>, "DS"  >>,
    <<  <<B, Lit(<<"SELF">>), Rep({"-", " "}, 0, 1), Lit(<<"SHIELD">>), B>>, "CS"  >>,
    <<  <<B, Lit(<<"REBEL">>), B>>, "REBEL"  >>,
    <<  <<B, Lit(<<"ROBUST">>), Rep(Spaces, 0, Unbounded), Lit(<<"FEED">>), B>>, "ROBUST FEED"  >>,
    <<  <<B, Lit(<<"CUTMASTER">>), B>>, "CUTMASTER"  >>,
    <<  <<B, Lit(<<"PURUS">>), B>>, "PURUS"  >>,
    <<  <<B, Lit(<<"OKS">>), B>>, "OK"  >>,
    <<  <<B, Lit(<<"RUTILIA">>), B>>, "SUREWELD"  >>
>>

_STOP_WORDS_None == {}

_STOP_WORDS == {"WIRE", "ROD", "FILLER", "WELDING", "THE", "A", "AN", "FOR", "AND", "WITH", "OF"}

\* the substitution r'(\d)/(\d+)' -> r'\1 \2'
FractionSeparatorPattern == <<Rep(Digits, 1, 1), Lit(<<"/">>), Rep(Digits, 1, Unbounded)>>

\* [A-Z0-9]+
TokenPattern == <<Rep(Uppers \cup Digits, 1, Unbounded)>>

\* [Group(s, m, i, j) for m in matches]
RECURSIVE Groups(_, _, _, _)
Groups(s, matches, i, j) ==
    IF matches = <<>> THEN <<>>
    ELSE <<Group(s, Head(matches), i, j)>> \o Groups(s, Tail(matches), i, j)

\* for pattern, replacement in _EXPANSIONS: norm = pattern.sub(replacement, norm)
RECURSIVE ApplyExpansions(_, _)
ApplyExpansions(norm, k) ==
    IF k > Len(_EXPANSIONS) THEN norm
    ELSE ApplyExpansions(
            Sub(_EXPANSIONS[k][1], <<Text(_EXPANSIONS[k][2])>>, norm, 1), k + 1)

\* ParsedQuery(raw)
ParsedQuery(raw) ==
    [raw |-> raw, diameters |-> <<>>, alloys |-> <<>>, pkg_weights |-> <<>>,
     pkg_types |-> <<>>, tokens |-> <<>>, normalized |-> ""]

\* the length test on the matched text, hyphens included
KeepAlloy_RawLength(matched) ==
    LET code == RemoveChar(Upper(matched), "-")
    IN  code \in _KNOWN_ALLOYS \/ Len(matched) >= 3

\* the alloy codes kept: code in _KNOWN_ALLOYS or len(code) >= 3
KeepAlloy(matched) ==
    LET code == RemoveChar(Upper(matched), "-")
    IN  code \in _KNOWN_ALLOYS \/ Len(code) >= 3

\* the fraction extractor: f'{m.group(1)} {m.group(2)}'
RECURSIVE FractionTexts(_, _)
FractionTexts(s, matches) ==
    IF matches = <<>> THEN <<>>
    ELSE <<Group(s, Head(matches), 2, 2) \o " " \o Group(s, Head(matches), 4, 4)>>
         \o FractionTexts(s, Tail(matches))

\* [x.upper() for x in texts]
RECURSIVE UpperAll(_)
UpperAll(texts) ==
    IF texts = <<>> THEN <<>> ELSE <<Upper(Head(texts))>> \o UpperAll(Tail(texts))

parse_query(text) ==
    LET working == Strip(text)
        upper   == Upper(working)
        norm0   == Strip(upper)
        norm1   == ApplyExpansions(norm0, 1)
        norm2   == Sub(DiameterDecimalPattern, <<Ref(4, 4)>>, norm1, 1)
        norm    == Sub(FractionSeparatorPattern, <<Ref(1, 1), Text(" "), Ref(3, 3)>>, norm2, 1)
        alloy_matches == Groups(norm, FindIter(AlloyPattern, norm, 1), 3, 8)
        raw_tokens    == Groups(norm, FindIter(TokenPattern, norm, 1), 1, 1)
    IN  IF working = "" THEN ParsedQuery(text)
        ELSE [raw         |-> text,
              diameters   |-> Groups(working, FindIter(DiameterDecimalPattern, working, 1), 4, 4)
                              \o FractionTexts(working,
                                               FindIter(DiameterFractionPattern, working, 1)),
              pkg_weights |-> Groups(upper, FindIter(PkgWeightPattern, upper, 1), 2, 2),
              pkg_types   |-> Groups(upper, FindIter(PkgTypePattern, upper, 1), 2, 2),
              normalized  |-> norm,
              alloys      |-> UpperAll(SelectSeq(alloy_matches, KeepAlloy)),
              tokens      |-> SelectSeq(raw_tokens,
                                        LAMBDA t : t \notin _STOP_WORDS /\ Len(t) > 0)]

-----------------------------------------------------------------------------
(* search.py: scoring.  A score is a Python float; the model holds it as an
   integer count of 1/ScoreScale points, which is exact whenever the number of
   query tokens and the number of description tokens are at most 10. *)

ScoreScale == 2520

Points(n) == n * ScoreScale

Min(a, b) == IF a <= b THEN a ELSE b

Max_First(a, b) == a

Max(a, b) == IF a >= b THEN a ELSE b

\* any(P(x) for x in seq) with P a substring test on text: x in text
AnyIn(seq, text) == \E i \in 1..Len(seq) : Contains(text, seq[i])

\* hits: the number of query tokens that occur in combined
RECURSIVE Hits(_, _)
Hits(tokens, combined) ==
    IF tokens = <<>> THEN 0
    ELSE (IF Contains(combined, Head(tokens)) THEN 1 ELSE 0) + Hits(Tail(tokens), combined)

\* f"{desc_upper} {pn_upper} {enriched_upper}"
Combined(desc, pn, enriched) ==
    Upper(desc) \o " " \o Upper(pn) \o " " \o (IF Truthy(enriched) THEN Upper(enriched) ELSE "")

\* the rapidfuzz similarity max(desc_fuzzy, pn_fuzzy, enriched_fuzzy) is computed
\* by a library outside the repository: a percentage that the model draws
\* from FuzzyValues at every call
FuzzyValues == {0, 100}

\* the exact part number test: the query and the part number, spaces removed
ExactPartNumber(pq, pn) == RemoveChar(pq.normalized, " ") = RemoveChar(Upper(pn), " ")

\* any(f"{w}F" in combined or f"{w}LB" in combined or f"{w} LB" in combined ...)
PkgFound(pkg_weights, combined) ==
    \E i \in 1..Len(pkg_weights) :
        \/ Contains(combined, pkg_weights[i] \o "F")
        \/ Contains(combined, pkg_weights[i] \o "LB")
        \/ Contains(combined, pkg_weights[i] \o " LB")

\* any(a.replace('-', '') in combined.replace('-', '') for a in pq.alloys)
AlloyFound(alloys, combined) ==
    \E i \in 1..Len(alloys) :
        Contains(RemoveChar(combined, "-"), RemoveChar(alloys[i], "-"))

\* if pq.diameters: score += 15 if any(d in combined ...) else score -= 10
DiameterTerm_NoPenalty(diameters, combined) ==
    IF diameters # <<>> /\ AnyIn(diameters, combined) THEN Points(15) ELSE 0

DiameterTerm(diameters, combined) ==
    IF diameters = <<>> THEN 0
    ELSE IF AnyIn(diameters, combined) THEN Points(15) ELSE -Points(10)

\* the score before the exact-match override and the clamp
RawScore(pq, desc, pn, enriched, fuzzy_best) ==
    LET combined    == Combined(desc, pn, enriched)
        n_tokens    == Max(Len(pq.tokens), 1)
        hits        == Hits(pq.tokens, combined)
        desc_tokens == FindIter(TokenPattern, Upper(desc), 1)
        coverage15  == IF n_tokens >= Max(Len(desc_tokens), 1) THEN Points(15)
                       ELSE (Points(15) * n_tokens) \div Max(Len(desc_tokens), 1)
        base        == (Points(45) * hits) \div n_tokens
                       + (Points(30) * fuzzy_best) \div 100
                       + coverage15
        diameter    == DiameterTerm(pq.diameters, combined)
        alloy       == IF pq.alloys = <<>> THEN 0
                       ELSE IF AlloyFound(pq.alloys, combined) THEN Points(12) ELSE -Points(8)
        pkg_weight  == IF pq.pkg_weights # <<>> /\ PkgFound(pq.pkg_weights, combined)
                       THEN Points(8) ELSE 0
        pkg_type    == IF pq.pkg_types # <<>> /\ AnyIn(pq.pkg_types, combined)
                       THEN Points(5) ELSE 0
        all_hit     == IF hits = n_tokens THEN Points(8) ELSE 0
    IN  base + diameter + alloy + pkg_weight + pkg_type + all_hit

\* _score_item without "if token_ratio == 0: return 0.0"
_score_item_NoEarlyReturn(pq, desc, pn, enriched, fuzzy_best) ==
    LET score == IF ExactPartNumber(pq, pn) THEN Points(100)
                 ELSE RawScore(pq, desc, pn, enriched, fuzzy_best)
    IN  Max(Min(score, Points(100)), 0)

_score_item(pq, desc, pn, enriched, fuzzy_best) ==
    LET combined == Combined(desc, pn, enriched)
        hits     == Hits(pq.tokens, combined)
        score    == IF ExactPartNumber(pq, pn) THEN Points(100)
                    ELSE RawScore(pq, desc, pn, enriched, fuzzy_best)
    IN  IF hits = 0 THEN 0
        ELSE Max(Min(score, Points(100)), 0)

-----------------------------------------------------------------------------
(* search.py: search_products *)

\* the query texts typed into the search box
QueryArgs == {"ab12", "s6 wire 0.045", "wire", "cable", "  "}

\* rows of the master frame after _load_and_enrich: part_number, description
\* and the enriched_description column
CatalogRows ==
    { [part_number |-> "AB12",  description |-> "CABLE",
       enriched_description |-> "CABLE"],
      [part_number |-> "AB 12", description |-> "CABLE 045",
       enriched_description |-> ""],
      [part_number |-> "W70",   description |-> "WELD 70S 6 045",
       enriched_description |-> "MIG Wire"],
      [part_number |-> "CD34",  description |-> "CABLE",
       enriched_description |-> "CABLE"] }

\* the queries and rows _score_item is called on: those of a search, a query
\* whose diameter no row carries, and a four-token query with a row of nine
\* description tokens
ItemQueryArgs == QueryArgs \cup {"cable 0.035", "x y z 0.035", "cable 12"}

\* the texts parse_query is called on
ParseArgs ==
    ItemQueryArgs \cup {"the rod for a", "mig wire 035", "3/32 7018 50lb", "S-6 .045 spool",
                        "e70-wxyz 12-3 7018"}

ItemRows ==
    CatalogRows \cup
    { [part_number |-> "Q", description |-> "X 1 2 3 4 5 6 7 8",
       enriched_description |-> ""] }

\* parse_query of each query text, evaluated once
ParsedQueries == [query \in ParseArgs |-> parse_query(query)]

\* pq = parse_query(query)
Parsed(query) == IF query \in ParseArgs THEN ParsedQueries[query] ELSE parse_query(query)

\* _score_item of each query text on each row, evaluated once
ItemScores ==
    [query \in ItemQueryArgs, row \in ItemRows, fuzzy_best \in FuzzyValues |->
        _score_item(Parsed(query), row.description, row.part_number,
                    row.enriched_description, fuzzy_best)]

\* _score_item(pq, descriptions[i], part_numbers[i], enriched_descs[i])
ScoreOf(query, row, fuzzy_best) ==
    IF query \in ItemQueryArgs /\ row \in ItemRows /\ fuzzy_best \in FuzzyValues
    THEN ItemScores[query, row, fuzzy_best]
    ELSE _score_item(Parsed(query), row.description, row.part_number,
                     row.enriched_description, fuzzy_best)

\* pd.DataFrame(): the frame of the early returns, without a match_score column
EmptyFrame == [scored |-> FALSE, rows |-> <<>>]

\* scores = [_score_item(pq, descriptions[i], part_numbers[i], enriched_descs[i]) ...];
\* fuzzy[i] is the similarity the library returns for row i
Scores(query, master_df, fuzzy) ==
    [i \in 1..Len(master_df) |-> ScoreOf(query, master_df[i], fuzzy[i])]

\* result = master_df.copy(); result["match_score"] = scores.  idx is the index
\* label of the row, its position in master_df
WithScores(master_df, scores) ==
    [i \in 1..Len(master_df) |->
        [idx |-> i, part_number |-> master_df[i].part_number,
         description |-> master_df[i].description, match_score |-> scores[i]]]

\* result[result["match_score"] >= min_score]
AtLeast(result, min_score) ==
    SelectSeq(result, LAMBDA row : row.match_score >= Points(min_score))

IsDescending(rows) ==
    \A i \in 1..(Len(rows) - 1) : rows[i].match_score >= rows[i + 1].match_score

\* result.sort_values("match_score", ascending=False): the default kind,
\* quicksort, is not a stable sort, so rows of equal score come out in an
\* order the call does not fix.  Every descending arrangement is an outcome.
sort_values(result) ==
    { [i \in 1..Len(result) |-> result[p[i]]] : p \in Permutations(1..Len(result)) }

SortedDescending(result) == { rows \in sort_values(result) : IsDescending(rows) }

\* DataFrame.head(n): the first n rows; all but the last |n| rows when n < 0
head_All(rows, n) == rows

head(rows, n) ==
    IF n >= 0 THEN SubSeq(rows, 1, Min(n, Len(rows)))
    ELSE SubSeq(rows, 1, Max(Len(rows) + n, 0))

\* the frames search_products can return
search_products(query, master_df, max_results, min_score, fuzzy) ==
    LET pq     == Parsed(query)
        scores == Scores(query, master_df, fuzzy)
        result == AtLeast(WithScores(master_df, scores), min_score)
    IN  IF master_df = <<>> \/ Strip(query) = "" THEN {EmptyFrame}
        ELSE IF pq.tokens = <<>> THEN {EmptyFrame}
        ELSE { [scored |-> TRUE, rows |-> head(sorted, max_results)] :
                   sorted \in SortedDescending(result) }

-----------------------------------------------------------------------------
(* The rows a price file can hold, as read from the sheet (before loader.py
   normalises them), and the arguments of a lookup *)

RawMasterRows ==
    [part_number : {"P1"}, description : {"ROD "},
     list_price : {NaN, 0, 1000000}, tier_price : {-100000, 900000}]
    \cup
    [part_number : {" P2"}, description : {""},
     list_price : {1000004}, tier_price : {NaN}]

RawEndUserRows ==
    { [part_number |-> "P1", description |-> "EU ROD", price |-> p,
       alloy_surcharge |-> s[1], tariff_surcharge |-> s[2],
       end_user_name |-> n[1], customer_name |-> n[2], city |-> "", state |-> ""] :
        p \in {NaN, 850000, 1200000},
        s \in {<<NaN, NaN>>, <<4, 25000>>},
        n \in {<<"Acme ", "Dist">>, <<"", "Acme">>, <<"nan", "Bolt">>} }
    \cup
    { [part_number |-> "P2", description |-> "EU ROD", price |-> 850000,
       alloy_surcharge |-> NaN, tariff_surcharge |-> NaN,
       end_user_name |-> "Acme", customer_name |-> "Dist", city |-> "", state |-> ""] }

RawLocationRows ==
    { [part_number |-> "P1", description |-> "LOC ROD", price |-> p,
       alloy_surcharge |-> s[1], tariff_surcharge |-> s[2],
       end_user_name |-> "", customer_name |-> n[1], city |-> n[2], state |-> n[3]] :
        p \in {0, 700000, 1300000},
        s \in {<<NaN, NaN>>, <<6, 0>>},
        n \in {<<"Bolt", "Austin", "TX">>, <<"", "Reno", "">>} }
    \cup
    { [part_number |-> "P2", description |-> "LOC ROD", price |-> 700000,
       alloy_surcharge |-> NaN, tariff_surcharge |-> NaN,
       end_user_name |-> "", customer_name |-> "Bolt", city |-> "Austin", state |-> "TX"] }

PartNumberArgs  == {"P1", " P2 "}
\* "" is the "(All / None)" choice of the UI (selected_end_user = None)
EndUserArgs     == {"", "Acme", "Dist"}
\* "Bolt" names a customer, and is the composed label of no row
LocationArgs    == {"", "Bolt -- Austin, TX", "Bolt"}

\* the lookups: every combination on the loaded partition "D1", and one lookup
\* under a distributor key that has no partition
PricingCalls ==
    [part_number : PartNumberArgs, distributor_key : {"D1"},
     selected_end_user : EndUserArgs, selected_location : LocationArgs]
    \cup
    [part_number : {"P1"}, distributor_key : {"D2"},
     selected_end_user : {""}, selected_location : {""}]

\* a master file of one product family: VariantCap + 1 part numbers that share
\* their first six characters, one row that shares only the description, and
\* one unrelated row.  The second row has no tier price, the third no price.
FamilyLetters == "ABCDEFGHIJKLMNOPQRSTUVWXYZ"

FamilyFile ==
    [i \in 1..(VariantCap + 1) |->
        [part_number |-> "WELD70-" \o Ch(FamilyLetters, i),
         description |-> "WIRE 045",
         list_price  |-> IF i = 3 THEN NaN ELSE 1000000,
         tier_price  |-> IF i = 2 THEN NaN ELSE IF i = 3 THEN 0 ELSE 900000]]
    \o << [part_number |-> "X9", description |-> "Weld 70s 6 045x44f sp",
            list_price |-> 1000000, tier_price |-> 900000],
           [part_number |-> "CABLE1", description |-> "CABLE",
            list_price |-> 1000000, tier_price |-> NaN] >>

MasterFiles == {FamilyFile}

VariantCalls ==
    { [part_number |-> "WELD70-A ", description |-> "WELD 70S 6 045X44F",
       distributor_key |-> "D1"],
      [part_number |-> "CABLE1", description |-> "wire 045", distributor_key |-> "D1"],
      [part_number |-> "X9", description |-> "Weld 70s 6  045x44f", distributor_key |-> "D1"],
      [part_number |-> "P1", description |-> "", distributor_key |-> "D1"],
      [part_number |-> " ", description |-> "ROD", distributor_key |-> "D1"],
      [part_number |-> "P1", description |-> "ROD", distributor_key |-> "D1"],
      [part_number |-> "P2", description |-> "EU ROD", distributor_key |-> "D1"],
      [part_number |-> "P1", description |-> "ROD", distributor_key |-> "D2"] }

NoVariantsCall ==
    [made |-> FALSE, part_number |-> "", description |-> "", distributor_key |-> ""]

NoPricingCall ==
    [made |-> FALSE, part_number |-> "", distributor_key |-> "",
     selected_end_user |-> "", selected_location |-> ""]

\* ProductPricing(part_number, description="", uom="") with its field defaults
EmptyPricing ==
    [part_number |-> "", description |-> "", best_price |-> <<>>, all_prices |-> <<>>]

-----------------------------------------------------------------------------
(* Actions of the pricing side *)

RowsLoaded == Len(master) + Len(end_user) + Len(location)

\* _process_file on a master file: normalise, then pd.concat onto the partition
LoadMaster(raw) ==
    /\ ~pricing_call.made
    /\ ~variants_call.made
    /\ RowsLoaded < MaxRows
    /\ master' = Append(master, normalize_master(raw))
    /\ UNCHANGED <<end_user, location, pricing_call, pricing_result,
                   variants_call, variants_result, search_vars>>
    /\ UNCHANGED <<enrich_vars, basket_vars>>

\* _process_file on an end-user file
LoadEndUser(raw) ==
    /\ ~pricing_call.made
    /\ ~variants_call.made
    /\ RowsLoaded < MaxRows
    /\ end_user' = Append(end_user, normalize_special(raw))
    /\ UNCHANGED <<master, location, pricing_call, pricing_result,
                   variants_call, variants_result, search_vars>>
    /\ UNCHANGED <<enrich_vars, basket_vars>>

\* _process_file on a location file
LoadLocation(raw) ==
    /\ ~pricing_call.made
    /\ ~variants_call.made
    /\ RowsLoaded < MaxRows
    /\ location' = Append(location, normalize_special(raw))
    /\ UNCHANGED <<master, end_user, pricing_call, pricing_result,
                   variants_call, variants_result, search_vars>>
    /\ UNCHANGED <<enrich_vars, basket_vars>>

\* one call of get_pricing on the loaded snapshot.  The result reads the
\* snapshot and the arguments only, never an earlier call, so one lookup per
\* snapshot reaches every (snapshot, arguments, result) there is.
GetPricing(part_number, distributor_key, selected_end_user, selected_location) ==
    /\ ~pricing_call.made
    /\ ~variants_call.made
    /\ pricing_call' = [made |-> TRUE, part_number |-> part_number,
                        distributor_key |-> distributor_key,
                        selected_end_user |-> selected_end_user,
                        selected_location |-> selected_location]
    /\ pricing_result' = get_pricing(part_number, distributor_key,
                                     selected_end_user, selected_location)
    /\ UNCHANGED <<master, end_user, location, variants_call, variants_result, search_vars>>
    /\ UNCHANGED <<enrich_vars, basket_vars>>

\* _process_file on a master file of many rows: normalise every row, all at
\* once, onto an empty partition
RECURSIVE NormalizeAll(_)
NormalizeAll(file) ==
    IF file = <<>> THEN <<>>
    ELSE <<normalize_master(Head(file))>> \o NormalizeAll(Tail(file))

LoadMasterFile(file) ==
    /\ ~pricing_call.made
    /\ ~variants_call.made
    /\ RowsLoaded = 0
    /\ master' = NormalizeAll(file)
    /\ UNCHANGED <<end_user, location, pricing_call, pricing_result,
                   variants_call, variants_result, search_vars>>
    /\ UNCHANGED <<enrich_vars, basket_vars>>

\* one call of find_variants on the loaded snapshot
FindVariants(part_number, description, distributor_key) ==
    /\ ~pricing_call.made
    /\ ~variants_call.made
    /\ variants_call' = [made |-> TRUE, part_number |-> part_number,
                         description |-> description,
                         distributor_key |-> distributor_key]
    /\ variants_result' = find_variants(part_number, description, distributor_key)
    /\ UNCHANGED <<master, end_user, location, pricing_call, pricing_result, search_vars>>
    /\ UNCHANGED <<enrich_vars, basket_vars>>

PricingInit ==
    /\ master = <<>>
    /\ end_user = <<>>
    /\ location = <<>>
    /\ pricing_call = NoPricingCall
    /\ pricing_result = EmptyPricing
    /\ variants_call = NoVariantsCall
    /\ variants_result = <<>>

PricingNext ==
    \/ \E raw \in RawMasterRows : LoadMaster(raw)
    \/ \E raw \in RawEndUserRows : LoadEndUser(raw)
    \/ \E raw \in RawLocationRows : LoadLocation(raw)
    \/ \E c \in PricingCalls :
          GetPricing(c.part_number, c.distributor_key,
                     c.selected_end_user, c.selected_location)
    \/ \E file \in MasterFiles : LoadMasterFile(file)
    \/ \E c \in VariantCalls :
          FindVariants(c.part_number, c.description, c.distributor_key)

-----------------------------------------------------------------------------
(* The catalog searched and the actions of the search side *)

MaxResultsArgs == {-1, 0, 1, 2}

MinScoreArgs == {30, 70}

NoItemCall ==
    [made |-> FALSE, query |-> "",
     row |-> [part_number |-> "", description |-> "", enriched_description |-> ""],
     fuzzy_best |-> 0]

NoParseCall == [made |-> FALSE, text |-> "", pq |-> ParsedQuery("")]

NoSearchCall ==
    [made |-> FALSE, query |-> "", max_results |-> 0, min_score |-> 0, scores |-> <<>>]

\* the frame is loaded and enriched one row at a time
LoadCatalog(row) ==
    /\ ~search_call.made
    /\ ~item_call.made
    /\ ~parse_call.made
    /\ Len(catalog) < MaxCatalog
    /\ catalog' = Append(catalog, row)
    /\ UNCHANGED <<item_call, item_score, parse_call, search_call, search_result, calls,
                   pricing_vars>>
    /\ UNCHANGED <<enrich_vars, basket_vars>>

\* _score_item(parse_query(query), row.description, row.part_number,
\* row.enriched_description)
ScoreItem(query, row, fuzzy_best) ==
    /\ ~search_call.made
    /\ ~item_call.made
    /\ ~parse_call.made
    /\ item_call' = [made |-> TRUE, query |-> query, row |-> row, fuzzy_best |-> fuzzy_best]
    /\ item_score' = ScoreOf(query, row, fuzzy_best)
    /\ UNCHANGED <<catalog, parse_call, search_call, search_result, calls, pricing_vars>>
    /\ UNCHANGED <<enrich_vars, basket_vars>>

\* pq = parse_query(text)
ParseQuery(text) ==
    /\ ~search_call.made
    /\ ~item_call.made
    /\ ~parse_call.made
    /\ parse_call' = [made |-> TRUE, text |-> text, pq |-> Parsed(text)]
    /\ UNCHANGED <<catalog, item_call, item_score, search_call, search_result, calls,
                   pricing_vars>>
    /\ UNCHANGED <<enrich_vars, basket_vars>>

\* one call of search_products on the catalog; scores is the list computed at
\* search.py:250-253 (empty when the call returns before scoring)
SearchProducts(query, max_results, min_score, fuzzy) ==
    /\ ~search_call.made
    /\ ~item_call.made
    /\ ~parse_call.made
    /\ search_call' =
          [made |-> TRUE, query |-> query, max_results |-> max_results,
           min_score |-> min_score,
           scores |-> IF catalog = <<>> \/ Strip(query) = ""
                         \/ Parsed(query).tokens = <<>>
                      THEN <<>>
                      ELSE Scores(query, catalog, fuzzy)]
    /\ search_result' \in search_products(query, catalog, max_results, min_score, fuzzy)
    /\ UNCHANGED <<catalog, item_call, item_score, parse_call, calls, pricing_vars>>
    /\ UNCHANGED <<enrich_vars, basket_vars>>

SearchInit ==
    /\ catalog = <<>>
    /\ item_call = NoItemCall
    /\ item_score = 0
    /\ parse_call = NoParseCall
    /\ search_call = NoSearchCall
    /\ search_result = EmptyFrame
    /\ calls = <<>>

SearchNext ==
    \/ \E row \in CatalogRows : LoadCatalog(row)
    \/ \E text \in ParseArgs : ParseQuery(text)
    \/ \E query \in ItemQueryArgs, row \in ItemRows, fuzzy_best \in FuzzyValues :
          ScoreItem(query, row, fuzzy_best)
    \/ \E query \in QueryArgs, max_results \in MaxResultsArgs, min_score \in MinScoreArgs,
          fuzzy \in [1..Len(catalog) -> FuzzyValues] :
          SearchProducts(query, max_results, min_score, fuzzy)

-----------------------------------------------------------------------------
(* enrichment.py: the reference tables *)

\* the entries of the PRODUCT_LINES literal as written: code, (full_name, product_type)
ProductLineItems == <<
    <<"WELD 70S 6", "Spoolarc Weld 70S-6", "MIG Wire (ER70S-6)">>,
    <<"WELD 70S 3", "Spoolarc Weld 70S-3", "MIG Wire (ER70S-3)">>,
    <<"86", "Spoolarc 86", "MIG Wire (ER70S-6)">>,
    <<"86E", "Spoolarc 86", "MIG Wire (ER70S-6)">>,
    <<"86 E", "Spoolarc 86", "MIG Wire (ER70S-6)">>,
    <<"29S", "Spoolarc 29S", "MIG Wire (ER80S-D2)">>,
    <<"81", "Arcaloy 81", "MIG/TIG Wire">>,
    <<"81 3", "Arcaloy 81-B3", "Chrome-Moly Wire">>,
    <<"81 5", "Arcaloy 81-B5", "Chrome-Moly Wire">>,
    <<"83", "Spoolarc 83", "MIG Wire (ER80S-Ni1)">>,
    <<"83E", "Spoolarc 83", "MIG Wire (ER80S-Ni1)">>,
    <<"71", "Spoolarc 71", "MIG Wire">>,
    <<"71 5", "71-5", "MIG Wire">>,
    <<"82", "Spoolarc 82", "MIG Wire (ER80S-D2)">>,
    <<"82 E", "Spoolarc 82", "MIG Wire (ER80S-D2)">>,
    <<"95", "Spoolarc 95", "MIG Wire">>,
    <<"95E", "Spoolarc 95", "MIG Wire">>,
    <<"95 E", "Spoolarc 95", "MIG Wire">>,
    <<"95 CU", "Spoolarc 95 CU", "Copper-Coated MIG Wire">>,
    <<"120", "Spoolarc 120", "Submerged Arc Wire">>,
    <<"120E", "Spoolarc 120", "Submerged Arc Wire">>,
    <<"120 CU", "Spoolarc 120 CU", "Copper-Coated Submerged Arc Wire">>,
    <<"65", "Spoolarc 65", "Submerged Arc Wire">>,
    <<"65 E", "Spoolarc 65", "MIG Wire">>,
    <<"65E", "Spoolarc 65", "MIG Wire">>,
    <<"75E", "Spoolarc 75", "MIG Wire">>,
    <<"75 E", "Spoolarc 75", "MIG Wire">>,
    <<"CW", "CoreWeld", "Metal-Cored Wire">>,
    <<"CW 70", "CoreWeld 70", "Metal-Cored Wire (E70C-6M)">>,
    <<"CW C6", "CoreWeld C6", "Metal-Cored Wire">>,
    <<"DS", "Dual Shield", "Flux-Cored Wire">>,
    <<"DS II", "Dual Shield II", "Flux-Cored Wire">>,
    <<"DS II 70", "Dual Shield II 70", "Flux-Cored Wire (E71T-1)">>,
    <<"DS II 70 ULT", "Dual Shield II 70 Ultra", "Flux-Cored Wire (E71T-1)">>,
    <<"DS II 71", "Dual Shield II 71", "Flux-Cored Wire">>,
    <<"DS II 71 ULT", "Dual Shield II 71 Ultra", "Flux-Cored Wire (E71T-1)">>,
    <<"DS 710X", "Dual Shield 710X", "Flux-Cored Wire">>,
    <<"DS 7100 ULT", "Dual Shield 7100 Ultra", "Flux-Cored Wire (E71T-1M)">>,
    <<"DS 7100 LC", "Dual Shield 7100 Low Carbon", "Flux-Cored Wire">>,
    <<"DS 7100 SR", "Dual Shield 7100 SR", "Flux-Cored Wire">>,
    <<"DS 111RB", "Dual Shield 111RB", "Flux-Cored Wire">>,
    <<"DS T", "Dual Shield T", "Flux-Cored Wire">>,
    <<"DS T 75", "Dual Shield T-75", "Flux-Cored Wire">>,
    <<"DS R 70", "Dual Shield R 70", "Flux-Cored Wire">>,
    <<"DS R 70 ULT", "Dual Shield R 70 Ultra", "Flux-Cored Wire">>,
    <<"ESAB 71", "ESAB 71", "Flux-Cored Wire">>,
    <<"CS", "Coreshield", "Self-Shielded Flux-Cored Wire">>,
    <<"CS 8", "Coreshield 8", "Self-Shielded Flux-Cored Wire (E71T-8)">>,
    <<"CS 11", "Coreshield 11", "Self-Shielded Flux-Cored Wire (E71T-11)">>,
    <<"CS 15", "Coreshield 15", "Self-Shielded Flux-Cored Wire (E71T-14)">>,
    <<"AA", "Atom Arc", "Stick Electrode">>,
    <<"AA 7018", "Atom Arc 7018", "Stick Electrode (E7018)">>,
    <<"AA 7018 1", "Atom Arc 7018-1", "Stick Electrode (E7018-1)">>,
    <<"AA 7018 M", "Atom Arc 7018 Moisture Resistant", "Stick Electrode (E7018-H4R)">>,
    <<"AA T", "Atom Arc T", "Stick Electrode">>,
    <<"SW", "Sureweld", "Stick Electrode">>,
    <<"SW T", "Sureweld T", "Stick Electrode">>,
    <<"SW T 11", "Sureweld T-11", "Stick Electrode (E6011)">>,
    <<"SUREWELD 6010", "Sureweld 6010", "Stick Electrode (E6010)">>,
    <<"SUREWELD 6011", "Sureweld 6011", "Stick Electrode (E6011)">>,
    <<"SUREWELD 6013", "Sureweld 6013", "Stick Electrode (E6013)">>,
    <<"SUREWELD 7014", "Sureweld 7014", "Stick Electrode (E7014)">>,
    <<"SUREWELD 7018", "Sureweld 7018", "Stick Electrode (E7018)">>,
    <<"SUREWELD 7024", "Sureweld 7024", "Stick Electrode (E7024)">>,
    <<"SUREWELD 308L 16", "Sureweld 308L-16", "Stainless Stick Electrode (E308L-16)">>,
    <<"SUREWELD 309L 16", "Sureweld 309L-16", "Stainless Stick Electrode (E309L-16)">>,
    <<"SUREWELD 316L 16", "Sureweld 316L-16", "Stainless Stick Electrode (E316L-16)">>,
    <<"SUREWELD 308LSI MIG", "Sureweld 308LSi MIG", "Stainless MIG Wire (ER308LSi)">>,
    <<"AS", "AutoShield", "Submerged Arc Wire">>,
    <<"SA", "Spoolarc", "Submerged Arc Wire">>,
    <<"A S SUPER 4 60", "Arcaloy Super 4-60", "Stainless Stick Electrode">>,
    <<"A S 4 60", "Arcaloy 4-60", "Stainless Stick Electrode">>,
    <<"A S SMOOTHCOTE 34", "Arcaloy Smoothcote 34", "Stainless Stick Electrode">>,
    <<"A S 275", "Arcaloy 275", "Stainless Stick Electrode">>,
    <<"A S STEELARC 80LV", "Arcaloy Steelarc 80LV", "Low-Alloy Stick Electrode">>,
    <<"A S HS 2C", "Arcaloy HS-2C", "Stainless Stick Electrode">>,
    <<"A S 8 60", "Arcaloy 8-60", "Stainless Stick Electrode">>,
    <<"A S", "Arcaloy Stainless", "Stick Electrode">>,
    <<"OK FLUX 10", "OK Flux 10", "Submerged Arc Flux">>,
    <<"OK FLUXN 10", "OK Flux 10", "Submerged Arc Flux">>,
    <<"OK AUTROD 308LSI", "OK Autrod 308LSi", "Stainless MIG Wire">>,
    <<"OK AUTROD 12", "OK Autrod 12.50/12.51", "MIG Wire (ER70S-6)">>,
    <<"OK AUTROD", "OK Autrod", "MIG/TIG Wire (ESAB Europe)">>,
    <<"OK TIGROD", "OK Tigrod", "TIG Rod (ESAB Europe)">>,
    <<"OK TUBROD 14 12", "OK Tubrod 14.12", "Flux-Cored Wire (ESAB Europe)">>,
    <<"OK TUBROD", "OK Tubrod", "Flux-Cored Wire (ESAB Europe)">>,
    <<"OK AR12 62", "OK Autrod 12.62", "Low-Alloy MIG Wire">>,
    <<"OK AR12 63", "OK Autrod 12.63", "MIG Wire">>,
    <<"OK AR12 50", "OK Autrod 12.50", "MIG Wire (ER70S-6)">>,
    <<"OK AR 12 50", "OK Autrod 12.50", "MIG Wire (ER70S-6)">>,
    <<"OK AR 12 63", "OK Autrod 12.63", "MIG Wire">>,
    <<"OK AR55", "OK Autrod 55", "Low-Alloy MIG Wire">>,
    <<"OK AR13 26", "OK Autrod 13.26", "Stainless MIG Wire">>,
    <<"OK 53 70", "OK 53.70", "Stick Electrode (E7016)">>,
    <<"OK 12 51", "OK 12.51", "MIG Wire (ER70S-6)">>,
    <<"OK 12 50", "OK 12.50", "MIG Wire (ER70S-6)">>,
    <<"OK", "OK (ESAB Europe)", "Welding Consumable">>,
    <<"ER4043", "Alcotec ER4043", "Aluminum MIG/TIG Wire (4043)">>,
    <<"ER5356", "Alcotec ER5356", "Aluminum MIG/TIG Wire (5356)">>,
    <<"ER1100", "Alcotec ER1100", "Aluminum MIG/TIG Wire (1100)">>,
    <<"ER4047", "Alcotec ER4047", "Aluminum MIG/TIG Wire (4047)">>,
    <<"ER5183", "Alcotec ER5183", "Aluminum MIG/TIG Wire (5183)">>,
    <<"ER5554", "Alcotec ER5554", "Aluminum MIG/TIG Wire (5554)">>,
    <<"ER5556", "Alcotec ER5556", "Aluminum MIG/TIG Wire (5556)">>,
    <<"ER4145", "Alcotec ER4145", "Aluminum MIG/TIG Wire (4145)">>,
    <<"R4043", "Alcotec R4043", "Aluminum TIG Rod (4043)">>,
    <<"R4047", "Alcotec R4047", "Aluminum TIG Rod (4047)">>,
    <<"R4009", "Alcotec R4009", "Aluminum TIG Rod (4009)">>,
    <<"R5356", "Alcotec R5356", "Aluminum TIG Rod (5356)">>,
    <<"R5183", "Alcotec R5183", "Aluminum TIG Rod (5183)">>,
    <<"R5556", "Alcotec R5556", "Aluminum TIG Rod (5556)">>,
    <<"R5554", "Alcotec R5554", "Aluminum TIG Rod (5554)">>,
    <<"R1100", "Alcotec R1100", "Aluminum TIG Rod (1100)">>,
    <<"4043", "Alcotec 4043", "Aluminum MIG/TIG Wire (4043)">>,
    <<"5356", "Alcotec 5356", "Aluminum MIG/TIG Wire (5356)">>,
    <<"EXATON ER308 308L", "Exaton ER308/308L", "Stainless MIG/TIG Wire">>,
    <<"EXATON ER308SI 308LSI", "Exaton ER308Si/308LSi", "Stainless MIG/TIG Wire">>,
    <<"EXATON ER316 316L", "Exaton ER316/316L", "Stainless MIG/TIG Wire">>,
    <<"EXATON ER316SI 316LSI", "Exaton ER316Si/316LSi", "Stainless MIG/TIG Wire">>,
    <<"EXATON ER309 309L", "Exaton ER309/309L", "Stainless MIG/TIG Wire">>,
    <<"EXATON ER309LSI", "Exaton ER309LSi", "Stainless MIG/TIG Wire">>,
    <<"EXATON ER2209", "Exaton ER2209", "Duplex Stainless Wire/Rod">>,
    <<"EXATON ER2594", "Exaton ER2594", "Super Duplex Stainless Wire/Rod">>,
    <<"EXATON ER25 22 2 LMN", "Exaton ER25-22-2 LMn", "Super Duplex Stainless Wire/Rod">>,
    <<"EXATON ER317L", "Exaton ER317L", "Stainless MIG/TIG Wire (317L)">>,
    <<"EXATON AXT", "Exaton AXT", "Stainless Wire/Rod">>,
    <<"EXATON", "Exaton", "Stainless Wire/Rod">>,
    <<"AC 309L 16", "Arcaloy 309L-16", "Stainless Stick Electrode (E309L-16)">>,
    <<"AC 309L 15", "Arcaloy 309L-15", "Stainless Stick Electrode (E309L-15)">>,
    <<"AC 309 309H 16", "Arcaloy 309/309H-16", "Stainless Stick Electrode (E309-16)">>,
    <<"AC 309NB 16", "Arcaloy 309Nb-16", "Stainless Stick Electrode (E309Nb-16)">>,
    <<"AC 316LF5 16", "Arcaloy 316LF5-16", "Stainless Stick Electrode (E316L-16)">>,
    <<"AC 308L", "Arcaloy 308L", "Stainless Wire/Rod">>,
    <<"AC 309L", "Arcaloy 309L", "Stainless Stick Electrode">>,
    <<"SB 308L", "Shield-Brite 308L", "Stainless MIG Wire (ER308L)">>,
    <<"SB 308H", "Shield-Brite 308H", "Stainless MIG Wire (ER308H)">>,
    <<"SB 309L", "Shield-Brite 309L", "Stainless MIG Wire (ER309L)">>,
    <<"SB 316L", "Shield-Brite 316L", "Stainless MIG Wire (ER316L)">>,
    <<"SB", "Shield-Brite", "Stainless MIG Wire">>,
    <<"NCU80SB2", "Arcaloy NCU80SB2", "Nickel Alloy Wire/Rod">>,
    <<"NCU80SB6", "Arcaloy NCU80SB6", "Nickel Alloy Wire/Rod">>,
    <<"NCU80SB8", "Arcaloy NCU80SB8", "Nickel Alloy Wire/Rod">>,
    <<"NCU90SB3", "Arcaloy NCU90SB3", "Nickel Alloy Wire/Rod">>,
    <<"NCU90SB9", "Arcaloy NCU90SB9", "Nickel Alloy Wire/Rod">>,
    <<"TIG80SB2", "Arcaloy TIG80SB2", "Nickel Alloy TIG Rod">>,
    <<"TIG90SB3", "Arcaloy TIG90SB3", "Nickel Alloy TIG Rod">>,
    <<"NC 55", "Arcaloy NC-55", "Nickel Alloy Wire/Rod">>,
    <<"PURUS 42", "Purus 42", "Copper-Free MIG Wire (ER70S-6)">>,
    <<"WELD 70S 6 TIG", "Spoolarc Weld 70S-6 TIG", "TIG Rod (ER70S-6)">>,
    <<"WELD 70S 3 TIG", "Spoolarc Weld 70S-3 TIG", "TIG Rod (ER70S-3)">>,
    <<"DS 710", "Dual Shield 710", "Flux-Cored Wire">>,
    <<"DS 7100 SR", "Dual Shield 7100 SR", "Flux-Cored Wire">>,
    <<"DS T 75", "Dual Shield T-75", "Flux-Cored Wire">>,
    <<"DS R 70", "Dual Shield R 70", "Flux-Cored Wire">>,
    <<"CS 3", "Coreshield 3", "Self-Shielded Flux-Cored Wire">>,
    <<"CS 6", "Coreshield 6", "Self-Shielded Flux-Cored Wire">>,
    <<"ESAB 71", "ESAB 71", "Flux-Cored Wire (E71T-1)">>,
    <<"WELD 71T 9", "Weld 71T-9", "Flux-Cored Wire (E71T-9)">>,
    <<"AA 6010", "Atom Arc 6010", "Stick Electrode (E6010)">>,
    <<"AA 6011", "Atom Arc 6011", "Stick Electrode (E6011)">>,
    <<"AA 7014", "Atom Arc 7014", "Stick Electrode (E7014)">>,
    <<"AA 7024", "Atom Arc 7024", "Stick Electrode (E7024)">>,
    <<"SW 10", "Sureweld 10", "Stick Electrode (E6010)">>,
    <<"SW 11", "Sureweld 11", "Stick Electrode (E6011)">>,
    <<"SW 14", "Sureweld 14", "Stick Electrode (E7014)">>,
    <<"SW 18", "Sureweld 18", "Stick Electrode (E7018)">>,
    <<"SW 24", "Sureweld 24", "Stick Electrode (E7024)">>,
    <<"65 E", "Spoolarc 65 E", "Submerged Arc Wire">>,
    <<"AS 70S", "AutoShield 70S", "Submerged Arc Wire (ER70S)">>,
    <<"HELIX E WB", "Helix E WB", "Submerged Arc Wire">>,
    <<"STOODY", "Stoody", "Hardfacing Wire/Rod">>,
    <<"THERMACLAD", "ThermaClad", "Hardfacing Wire">>,
    <<"SPRAY MASTER", "SprayMaster", "MIG Gun">>,
    <<"SPRAYMASTER", "SprayMaster", "MIG Gun">>,
    <<"TWECO ELITE", "Tweco Elite", "MIG Gun">>,
    <<"CLASSIC", "Classic", "MIG Gun">>,
    <<"WELDSKILL", "WeldSkill", "MIG Gun">>,
    <<"SUPRAXT", "SupraXT", "MIG Gun">>,
    <<"COMPACT ELIMINATOR", "Compact Eliminator", "MIG Gun">>,
    <<"COMPACTELIMINATOR", "Compact Eliminator", "MIG Gun">>,
    <<"ESAB HELIARC SR", "ESAB Heliarc SR", "TIG Torch">>,
    <<"SL100", "SL100", "Plasma Torch">>,
    <<"SL60", "SL60", "Plasma Torch">>,
    <<"TBI 511 AUT", "TBI 511", "Automated MIG Torch">>,
    <<"TBI 360 AUT", "TBI 360", "Automated MIG Torch">>,
    <<"TBI 6G AUT", "TBI 6G", "Automated MIG Torch">>,
    <<"TBI 7G AUT", "TBI 7G", "Automated MIG Torch">>,
    <<"TBI 8G AUT", "TBI 8G", "Automated MIG Torch">>,
    <<"TBI", "TBI", "MIG Torch">>,
    <<"REBEL EMP 285IC", "Rebel EMP 285ic", "Multi-Process Welder">>,
    <<"REBEL EMP 235IC", "Rebel EMP 235ic", "Multi-Process Welder">>,
    <<"REBEL EMP 215IC", "Rebel EMP 215ic", "Multi-Process Welder">>,
    <<"REBEL EMP 205IC", "Rebel EMP 205ic", "Multi-Process Welder">>,
    <<"REBEL EMP", "Rebel EMP", "Multi-Process Welder">>,
    <<"REBEL", "Rebel", "Welding Machine">>,
    <<"ROBUST FEED PRO", "Robust Feed PRO", "Wire Feeder">>,
    <<"ROBUST FEED PULSE", "Robust Feed Pulse", "Wire Feeder">>,
    <<"ROBUST FEED U82", "Robust Feed U82", "Wire Feeder">>,
    <<"ROBUST FEED U6", "Robust Feed U6", "Wire Feeder">>,
    <<"ROBUST FEED U0", "Robust Feed U0", "Wire Feeder">>,
    <<"ROBUST FEED", "Robust Feed", "Wire Feeder">>,
    <<"ETS42 200", "ETS42-200", "Edge Two-Stage Regulator">>,
    <<"ETS4", "ETS4", "Edge Two-Stage Regulator">>,
    <<"ETS", "ETS", "Edge Regulator">>,
    <<"AIRCO 138", "Airco 138", "Airco-Style Cutting Tip">>,
    <<"AIRCO 144", "Airco 144", "Airco-Style Cutting Tip">>,
    <<"AIRCO 164", "Airco 164", "Airco-Style Welding Tip">>,
    <<"AIRCO", "Airco", "Airco-Style Gas Tip">>,
    <<"SR 26 RMT", "SR-26 RMT", "TIG Torch (200A Gas Cooled)">>,
    <<"SR 26V FX", "SR-26V FX", "TIG Torch (200A Gas Cooled)">>,
    <<"SR 26FV", "SR-26FV", "TIG Torch (200A Gas Cooled)">>,
    <<"SR 26", "SR-26", "TIG Torch (200A Gas Cooled)">>,
    <<"SR 21 FX", "SR-21 FX", "TIG Torch (200A Gas Cooled)">>,
    <<"SR 18 RMT", "SR-18 RMT", "TIG Torch (350A Water Cooled)">>,
    <<"SR 20 FX", "SR-20 FX", "TIG Torch (250A Water Cooled)">>,
    <<"SR 9 RMT", "SR-9 RMT", "TIG Torch (125A Gas Cooled)">>,
    <<"SR 17 RMT", "SR-17 RMT", "TIG Torch (150A Gas Cooled)">>,
    <<"SR", "SR Series", "TIG Torch">>,
    <<"HW 26FV", "WeldCraft 26FV", "TIG Torch Body (200A, Flex w/Valve)">>,
    <<"HW 17FV", "WeldCraft 17FV", "TIG Torch Body (150A, Flex w/Valve)">>,
    <<"HW 17RV", "WeldCraft 17RV", "TIG Torch Body (150A, Rigid w/Valve)">>,
    <<"HW 20", "WeldCraft 20", "TIG Torch Body (250A Water Cooled)">>,
    <<"HW 9", "WeldCraft 9", "TIG Torch Body (125A Gas Cooled)">>,
    <<"HW 90180", "WeldCraft 90/180", "TIG Torch Body">>,
    <<"HW", "WeldCraft", "TIG Torch Body/Part">>,
    <<"PT 27", "PT-27", "Plasma Torch">>,
    <<"PT 25", "PT-25", "Plasma Torch">>,
    <<"PT 31", "PT-31", "Plasma Torch">>,
    <<"PT 36", "PT-36", "Plasma Torch">>,
    <<"PT 38", "PT-38", "Plasma Torch">>,
    <<"PT 121", "PT-121", "Plasma Torch">>,
    <<"PT 26P", "PT-26P", "Plasma Torch">>,
    <<"CUTMASTER 120", "Cutmaster 120", "Plasma Cutting System">>,
    <<"CUTMASTER 82", "Cutmaster 82", "Plasma Cutting System">>,
    <<"CUTMASTER 60", "Cutmaster 60", "Plasma Cutting System">>,
    <<"CUTMASTER 40", "Cutmaster 40", "Plasma Cutting System">>,
    <<"CUTMASTER A120", "Cutmaster A120", "Plasma Cutting System">>,
    <<"CUTMASTER A80", "Cutmaster A80", "Plasma Cutting System">>,
    <<"CUTMASTER A40", "Cutmaster A40", "Plasma Cutting System">>,
    <<"CUTMASTER", "Cutmaster", "Plasma Cutting System">>,
    <<"PUROX STYLE 4202", "Purox Style 4202", "Oxy-Fuel Cutting Tip">>,
    <<"PUROX 4202", "Purox 4202", "Oxy-Fuel Cutting Tip">>,
    <<"PUROX STYLE", "Purox Style", "Oxy-Fuel Tip">>,
    <<"PUROX", "Purox", "Oxy-Fuel Tip">>,
    <<"OXWELD 1502", "Oxweld 1502", "Oxy-Fuel Cutting Tip">>,
    <<"OXWELD 150212", "Oxweld 1502-12", "Oxy-Fuel Cutting Tip">>,
    <<"OXWELD", "Oxweld", "Oxy-Fuel Tip">>,
    <<"ARC MC409TI", "Arcaloy MC409Ti", "Stainless Metal-Cored Wire">>,
    <<"ARC MC439TI", "Arcaloy MC439Ti", "Stainless Metal-Cored Wire">>,
    <<"ARC MC18CRCB", "Arcaloy MC18CrCb", "Stainless Metal-Cored Wire">>,
    <<"ARC MC", "Arcaloy Metal-Cored", "Stainless Metal-Cored Wire">>,
    <<"SUREWELD 308L", "Sureweld 308L-16", "Stainless Stick Electrode (E308L-16)">>,
    <<"SUREWELD 309L", "Sureweld 309L-16", "Stainless Stick Electrode (E309L-16)">>,
    <<"SUREWELD 316L", "Sureweld 316L-16", "Stainless Stick Electrode (E316L-16)">>,
    <<"SENTINEL A70PRO", "Sentinel A70 PRO", "Auto-Darkening Welding Helmet">>,
    <<"SENTINEL A60", "Sentinel A60", "Auto-Darkening Welding Helmet">>,
    <<"SENTINEL A50", "Sentinel A50", "Auto-Darkening Welding Helmet">>,
    <<"SENTINEL", "Sentinel", "Welding Helmet">>,
    <<"ESAB AUTROD 12", "ESAB Autrod 12", "MIG Wire (ESAB Europe)">>,
    <<"ESAB AUTROD", "ESAB Autrod", "MIG/TIG Wire (ESAB Europe)">>,
    <<"ESAB C6M", "ESAB CoreWeld C6M", "Metal-Cored Wire">>,
    <<"1100 O", "Alcotec 1100-O", "Aluminum Wire (1100)">>,
    <<"1100", "Alcotec 1100", "Aluminum Wire (1100)">>,
    <<"1350 F", "Alcotec 1350-F", "Aluminum Wire (1350)">>,
    <<"1350", "Alcotec 1350", "Aluminum Wire (1350)">>,
    <<"4008 F", "Alcotec 4008-F", "Aluminum Wire (4008)">>,
    <<"4008", "Alcotec 4008", "Aluminum Wire (4008)">>,
    <<"4043A", "Alcotec 4043A", "Aluminum Wire (4043A)">>,
    <<"4047 O", "Alcotec 4047-O", "Aluminum Wire (4047)">>,
    <<"5183", "Alcotec 5183", "Aluminum Wire (5183)">>,
    <<"5754", "Alcotec 5754", "Aluminum Wire (5754)">>,
    <<"7050", "Alcotec 7050", "Aluminum Wire (7050)">>,
    <<"TAM SERIES AUTO", "Tweco TAM Series", "Automatic MIG Gun Connection">>,
    <<"TAM BODY", "Tweco TAM Body", "MIG Gun Connection Body">>,
    <<"TAM", "Tweco TAM", "MIG Gun Connection Part">>,
    <<"SANDVIK E317L", "Sandvik E317L-16", "Stainless Stick Electrode (E317L-16)">>,
    <<"SANDVIK E309L", "Sandvik E309L-16", "Stainless Stick Electrode (E309L-16)">>,
    <<"SANDVIK E316L", "Sandvik E316L-16", "Stainless Stick Electrode (E316L-16)">>,
    <<"SANDVIK E308L", "Sandvik E308L-16", "Stainless Stick Electrode (E308L-16)">>,
    <<"SANDVIK", "Sandvik", "Stainless Stick Electrode">>,
    <<"ESAB TEACH TOOL", "ESAB Teach Tool", "Cobot Welding Teaching Pendant">>,
    <<"ESAB RC REMOTE", "ESAB RC Remote Control", "Remote Control for Welding">>,
    <<"ESAB STANDARD", "ESAB Standard Interface", "Welding System Interface">>,
    <<"ESAB 7018", "ESAB 7018", "Stick Electrode (E7018)">>,
    <<"ESAB RUFFIAN", "ESAB Ruffian", "Engine-Driven Welder">>,
    <<"ESAB", "ESAB", "Welding Product">>,
    <<"FLUX CORE SEFC", "Flux Core SEFC", "Flux Core Seam Track Liner">>,
    <<"FLUX HOPPER", "Flux Hopper", "Submerged Arc Flux Hopper">>
>>

\* dict, in insertion order: 3-digit code -> readable
DIAMETER_MAP == <<
    [code |-> "023", readable |-> "0.023\""],
    [code |-> "024", readable |-> "0.024\""],
    [code |-> "030", readable |-> "0.030\""],
    [code |-> "035", readable |-> "0.035\""],
    [code |-> "040", readable |-> "0.040\""],
    [code |-> "045", readable |-> "0.045\""],
    [code |-> "047", readable |-> "3/64\""],
    [code |-> "052", readable |-> "0.052\""],
    [code |-> "062", readable |-> "0.062\""],
    [code |-> "068", readable |-> "0.068\""],
    [code |-> "078", readable |-> "5/64\""],
    [code |-> "093", readable |-> "3/32\""]
>>

\* dict, in insertion order: fraction code -> readable
FRACTION_DIAMETERS == <<
    [code |-> "1 16", readable |-> "1/16\""],
    [code |-> "5 64", readable |-> "5/64\""],
    [code |-> "3 32", readable |-> "3/32\""],
    [code |-> "7 64", readable |-> "7/64\""],
    [code |-> "1 8", readable |-> "1/8\""],
    [code |-> "9 64", readable |-> "9/64\""],
    [code |-> "5 32", readable |-> "5/32\""],
    [code |-> "3 16", readable |-> "3/16\""],
    [code |-> "7 32", readable |-> "7/32\""],
    [code |-> "1 4", readable |-> "1/4\""],
    [code |-> "5 16", readable |-> "5/16\""]
>>

\* dict, in insertion order: metric code -> readable
METRIC_DIAMETERS == <<
    [code |-> "0 6MM", readable |-> "0.6mm"],
    [code |-> "0 8MM", readable |-> "0.8mm"],
    [code |-> "0 9MM", readable |-> "0.9mm"],
    [code |-> "1 0MM", readable |-> "1.0mm"],
    [code |-> "1 2MM", readable |-> "1.2mm"],
    [code |-> "1 4MM", readable |-> "1.4mm"],
    [code |-> "1 6MM", readable |-> "1.6mm"],
    [code |-> "2 0MM", readable |-> "2.0mm"],
    [code |-> "2 4MM", readable |-> "2.4mm"],
    [code |-> "3 2MM", readable |-> "3.2mm"]
>>

\* keyword-anywhere rules, in list order
HARDGOODS_CATEGORIES == <<
    [keywords |-> <<"TIP TIP GOUGING">>, category |-> "Plasma Gouging Tip"],
    [keywords |-> <<"TIP TIP LONG">>, category |-> "Plasma Cutting Tip (Long)"],
    [keywords |-> <<"TIP TIP EXTENDED">>, category |-> "Plasma Cutting Tip (Extended)"],
    [keywords |-> <<"TIP TIP">>, category |-> "Plasma Cutting Tip"],
    [keywords |-> <<"ELECTRODE ELECTRODE AIR", "ELECTRODE AIR">>, category |-> "Air Carbon Arc Electrode"],
    [keywords |-> <<"ELECTRODE ELECTRODE O2", "ELECTRODE ELECTRODE NITROGEN", "ELECTRODE ELECTRODE AR", "ELECTRODE ELECTRODE MULTI", "ELECTRODE ELECTRODE GOUGING", "ELECTRODE ELECTRODE MG", "ELECTRODE ELECTRODE N2", "ELECTRODE ELECTRODE WELDING", "ELECTRODE ELECTRODE LO AMP">>, category |-> "Plasma Electrode"],
    [keywords |-> <<"ELECTRODE PT">>, category |-> "Plasma Electrode"],
    [keywords |-> <<"GAS LENS">>, category |-> "TIG Gas Lens"],
    [keywords |-> <<"CUP HI", "CUP CER", "SHIELD CUP">>, category |-> "TIG Cup"],
    [keywords |-> <<"COLLET BODY">>, category |-> "TIG Collet Body"],
    [keywords |-> <<"COLLET">>, category |-> "TIG Collet"],
    [keywords |-> <<"BACK CAP">>, category |-> "TIG Back Cap"],
    [keywords |-> <<"TIG TORCH">>, category |-> "TIG Torch"],
    [keywords |-> <<"CONTACT TIP">>, category |-> "Contact Tip"],
    [keywords |-> <<"CONTACT JAW">>, category |-> "Contact Jaw"],
    [keywords |-> <<"CONTACT TUBE">>, category |-> "Contact Tube"],
    [keywords |-> <<"CT HOLDER">>, category |-> "Contact Tip Holder"],
    [keywords |-> <<"NOZZLE">>, category |-> "Nozzle"],
    [keywords |-> <<"GAS DIFFUSER">>, category |-> "Gas Diffuser"],
    [keywords |-> <<"GAS DISTRIBUTOR">>, category |-> "Gas Distributor"],
    [keywords |-> <<"SHIELD CAP">>, category |-> "Shield Cap"],
    [keywords |-> <<"SHIELD RETAINER">>, category |-> "Shield Retaining Cap"],
    [keywords |-> <<"NOZ RETAIN">>, category |-> "Nozzle Retaining Cup"],
    [keywords |-> <<"DRIVE RL", "DRIVE ROLL">>, category |-> "Drive Roll"],
    [keywords |-> <<"FEEDROLL", "FEED ROLL", "FEED ROLLER">>, category |-> "Feed Roll"],
    [keywords |-> <<"CONDUCTOR TUBE">>, category |-> "Conductor Tube"],
    [keywords |-> <<"LINER">>, category |-> "MIG Liner"],
    [keywords |-> <<"GUIDE TUBE">>, category |-> "Wire Guide Tube"],
    [keywords |-> <<"WIRE GUIDE">>, category |-> "Wire Guide"],
    [keywords |-> <<"WIRE OUTLET", "OUTLET GUIDE">>, category |-> "Wire Outlet Guide"],
    [keywords |-> <<"INLET GUIDE">>, category |-> "Wire Inlet Guide"],
    [keywords |-> <<"CENTER GUIDE">>, category |-> "Center Wire Guide"],
    [keywords |-> <<"INSULATOR">>, category |-> "Insulator"],
    [keywords |-> <<"TORCH BODY", "TORCH ADAPTER">>, category |-> "Torch"],
    [keywords |-> <<"TORCH HEAD">>, category |-> "Torch Head"],
    [keywords |-> <<"TORCH HOLDER">>, category |-> "Torch Holder"],
    [keywords |-> <<"TORCH CARRIAGE">>, category |-> "Torch Carriage"],
    [keywords |-> <<"TORCH LEADS">>, category |-> "Torch Leads Package"],
    [keywords |-> <<"SPRAYMASTER", "SPRAY MASTER">>, category |-> "SprayMaster MIG Gun"],
    [keywords |-> <<"TWECO ELITE">>, category |-> "Tweco Elite MIG Gun"],
    [keywords |-> <<"TWECO">>, category |-> "Tweco MIG Gun Part"],
    [keywords |-> <<"HELIARC">>, category |-> "ESAB Heliarc TIG Torch"],
    [keywords |-> <<"EXEOR MIG">>, category |-> "Exeor MIG Gun"],
    [keywords |-> <<"QRW ROBOTIC", "QRA ROBOTIC", "QRWA ROBOTIC">>, category |-> "Robotic MIG Gun"],
    [keywords |-> <<"PUSHPULL", "PUSH PULL">>, category |-> "Push-Pull MIG Gun"],
    [keywords |-> <<"SWAN NECK">>, category |-> "Robotic Swan Neck"],
    [keywords |-> <<"WATER COOLED MIG">>, category |-> "Water-Cooled MIG Gun"],
    [keywords |-> <<"CUTTING TIP", "TIP TIP AIR">>, category |-> "Cutting Tip"],
    [keywords |-> <<"VICTOR STYLE">>, category |-> "Victor-Style Gas Apparatus"],
    [keywords |-> <<"SMITH STYLE">>, category |-> "Smith-Style Gas Apparatus"],
    [keywords |-> <<"HARRIS STYLE">>, category |-> "Harris-Style Gas Apparatus"],
    [keywords |-> <<"AIRCO STYLE">>, category |-> "Airco-Style Gas Apparatus"],
    [keywords |-> <<"SEAT STEM">>, category |-> "Seat Stem Assembly"],
    [keywords |-> <<"SWIVEL BRASS">>, category |-> "Brass Swivel Fitting"],
    [keywords |-> <<"INNER OXYGEN">>, category |-> "Inner Oxygen Tube"],
    [keywords |-> <<"MACHINE CUTTING TORCH">>, category |-> "Machine Cutting Torch"],
    [keywords |-> <<"TUNG ELEC", "TUNGSTEN">>, category |-> "Tungsten Electrode"],
    [keywords |-> <<"ELECTRODE HOLDER">>, category |-> "Electrode Holder"],
    [keywords |-> <<"POWER SUPPLY", "POWER SOURCE">>, category |-> "Power Supply"],
    [keywords |-> <<"WIRE FEEDER", "WIREFEED">>, category |-> "Wire Feeder"],
    [keywords |-> <<"WARRIOR">>, category |-> "Warrior Welding Machine"],
    [keywords |-> <<"ARISTO">>, category |-> "Aristo Welding Machine"],
    [keywords |-> <<"ROGUE">>, category |-> "Rogue Welding Machine"],
    [keywords |-> <<"COOL MINI">>, category |-> "Cool Mini Water Cooler"],
    [keywords |-> <<"REGULATOR">>, category |-> "Regulator"],
    [keywords |-> <<"RELIEF VALVE">>, category |-> "Relief Valve"],
    [keywords |-> <<"SOLENOID VALVE">>, category |-> "Solenoid Valve"],
    [keywords |-> <<"PRESSURE ROLL", "PRESSURE ROLLER">>, category |-> "Pressure Roll"],
    [keywords |-> <<"PRESSURE DEVICE">>, category |-> "Pressure Device"],
    [keywords |-> <<"PRESSURE CONTROL">>, category |-> "Pressure Control"],
    [keywords |-> <<"CABLE">>, category |-> "Cable"],
    [keywords |-> <<"WELDING CABLE">>, category |-> "Welding Cable"],
    [keywords |-> <<"EDGE INTERC">>, category |-> "Edge Interconnection Cable"],
    [keywords |-> <<"CONN SET">>, category |-> "Connector Set"],
    [keywords |-> <<"CONNECTOR">>, category |-> "Connector"],
    [keywords |-> <<"QUICK CONNECTOR">>, category |-> "Quick Connector"],
    [keywords |-> <<"HOSE ASSY", "HOSE CONN", "HOSE UNION", "HOSE PACKAGE">>, category |-> "Hose Assembly"],
    [keywords |-> <<"FLEX CONDTUBE", "CONDUIT">>, category |-> "Conduit / Liner"],
    [keywords |-> <<"HANDLE">>, category |-> "Handle"],
    [keywords |-> <<"KNOB">>, category |-> "Knob"],
    [keywords |-> <<"SWITCH">>, category |-> "Switch"],
    [keywords |-> <<"NUT BRASS">>, category |-> "Brass Nut"],
    [keywords |-> <<"NUT">>, category |-> "Nut"],
    [keywords |-> <<"SCREW">>, category |-> "Screw"],
    [keywords |-> <<"WASHER">>, category |-> "Washer"],
    [keywords |-> <<"O RING">>, category |-> "O-Ring"],
    [keywords |-> <<"SPRING">>, category |-> "Spring"],
    [keywords |-> <<"COVER">>, category |-> "Cover"],
    [keywords |-> <<"SHIELD">>, category |-> "Shield"],
    [keywords |-> <<"FRONT PANEL", "FRONT DECORATIVE">>, category |-> "Front Panel"],
    [keywords |-> <<"FRONT COVER LENS">>, category |-> "Front Cover Lens"],
    [keywords |-> <<"FRONT WHEEL">>, category |-> "Front Wheel Kit"],
    [keywords |-> <<"FRONT">>, category |-> "Front Part"],
    [keywords |-> <<"HEAT SHIELD">>, category |-> "Heat Shield"],
    [keywords |-> <<"PCB CONTROL", "PCB">>, category |-> "Circuit Board (PCB)"],
    [keywords |-> <<"PC BOARD", "PFC BOARD">>, category |-> "Circuit Board"],
    [keywords |-> <<"CIRCUIT BREAKER">>, category |-> "Circuit Breaker"],
    [keywords |-> <<"MOTOR">>, category |-> "Motor"],
    [keywords |-> <<"FAN">>, category |-> "Fan"],
    [keywords |-> <<"FILTER">>, category |-> "Filter"],
    [keywords |-> <<"PANEL">>, category |-> "Panel"],
    [keywords |-> <<"REAMER">>, category |-> "Nozzle Reamer"],
    [keywords |-> <<"MIXER">>, category |-> "Torch Mixer"],
    [keywords |-> <<"GAUGE">>, category |-> "Pressure Gauge"],
    [keywords |-> <<"VALVE BODY", "VALVE STEM", "VALVE ASSY">>, category |-> "Valve Assembly"],
    [keywords |-> <<"DIAPHRAGM">>, category |-> "Diaphragm"],
    [keywords |-> <<"MAGNETIC EARTH CLAMP">>, category |-> "Magnetic Earth Clamp"],
    [keywords |-> <<"MAGNETIC TORCH HOLDER">>, category |-> "Magnetic Torch Holder"],
    [keywords |-> <<"COLLISION PROTECTION", "COLLISION POTECTION">>, category |-> "Collision Protection"],
    [keywords |-> <<"LASER PROTECTION">>, category |-> "Laser Protection Cover"],
    [keywords |-> <<"SPARE PARTS KIT">>, category |-> "Spare Parts Kit"],
    [keywords |-> <<"REPAIR KIT">>, category |-> "Repair Kit"],
    [keywords |-> <<"PACK CUTSKILL">>, category |-> "Cutskill Plasma Consumable"],
    [keywords |-> <<"PLASMA">>, category |-> "Plasma Torch Part"],
    [keywords |-> <<"LABEL">>, category |-> "Label"],
    [keywords |-> <<"STOODY">>, category |-> "Stoody Hardfacing"],
    [keywords |-> <<"THERMACLAD">>, category |-> "ThermaClad Hardfacing"],
    [keywords |-> <<"CTD", "VACPAK">>, category |-> "TIG Rod / Cut Length"],
    [keywords |-> <<"WIRE STRAIGHTENER">>, category |-> "Wire Straightener"],
    [keywords |-> <<"WIRE REEL">>, category |-> "Wire Reel"],
    [keywords |-> <<"CONTROL WIRE">>, category |-> "Control Wire"],
    [keywords |-> <<"GUIDE PIN">>, category |-> "Guide Pin"],
    [keywords |-> <<"GUIDE WHEEL">>, category |-> "Guide Wheel"],
    [keywords |-> <<"GUIDE FINGER">>, category |-> "Guide Finger"],
    [keywords |-> <<"GAS SEPARATOR">>, category |-> "Gas Separator"],
    [keywords |-> <<"GAS HOSE">>, category |-> "Gas Hose"],
    [keywords |-> <<"GAS COOLED">>, category |-> "Gas-Cooled Torch Part"],
    [keywords |-> <<"GAS SYSTEM">>, category |-> "Gas System Component"],
    [keywords |-> <<"TORCH PB", "TORCH PUSH">>, category |-> "Push-Pull MIG Torch"],
    [keywords |-> <<"TORCH NECK">>, category |-> "Torch Neck"],
    [keywords |-> <<"TORCH BODY">>, category |-> "Torch Body"],
    [keywords |-> <<"TORCH ADAPTER">>, category |-> "Torch Adapter"],
    [keywords |-> <<"VALVE CONNECTION">>, category |-> "Valve Connection"],
    [keywords |-> <<"VALVE CAP">>, category |-> "Valve Cap"],
    [keywords |-> <<"VALVE">>, category |-> "Valve"],
    [keywords |-> <<"SPACER">>, category |-> "Spacer"],
    [keywords |-> <<"TRIGGER ASSY", "TRIGGER ASSEMBLY">>, category |-> "Trigger Assembly"],
    [keywords |-> <<"TRIGGER LEVER">>, category |-> "Trigger Lever"],
    [keywords |-> <<"TRIGGER">>, category |-> "Trigger"],
    [keywords |-> <<"HARNESS SIGNAL">>, category |-> "Signal Harness"],
    [keywords |-> <<"HARNESS SOLENOID">>, category |-> "Solenoid Harness"],
    [keywords |-> <<"HARNESS GAS">>, category |-> "Gas System Harness"],
    [keywords |-> <<"HARNESS">>, category |-> "Wiring Harness"],
    [keywords |-> <<"SLEEVE PLUG">>, category |-> "Sleeve Plug"],
    [keywords |-> <<"SLEEVE">>, category |-> "Sleeve"],
    [keywords |-> <<"HEAD REPAIR">>, category |-> "Torch Head Repair Part"],
    [keywords |-> <<"ARC CONTROL">>, category |-> "Arc Control Box"],
    [keywords |-> <<"REAR AXLE">>, category |-> "Rear Axle"],
    [keywords |-> <<"REAR CASE">>, category |-> "Rear Case"],
    [keywords |-> <<"REAR">>, category |-> "Rear Part"],
    [keywords |-> <<"BASE PLATE">>, category |-> "Base Plate"],
    [keywords |-> <<"FLUX CORE SEFC">>, category |-> "Flux Core Seam Track Liner"],
    [keywords |-> <<"FLUX HOPPER">>, category |-> "Submerged Arc Flux Hopper"],
    [keywords |-> <<"CLEAR PLASTIC">>, category |-> "Clear Plastic Cover"],
    [keywords |-> <<"WASTE BAG">>, category |-> "Waste Bags"],
    [keywords |-> <<"ACETYLENE TUBE">>, category |-> "Acetylene Tube"],
    [keywords |-> <<"OXYGEN TUBE">>, category |-> "Oxygen Tube"],
    [keywords |-> <<"ACETYLENE HOSE">>, category |-> "Acetylene Hose"],
    [keywords |-> <<"PSF 250", "PSF 305", "PSF 410", "PSF 510">>, category |-> "PSF MIG Torch Part"],
    [keywords |-> <<"PSF">>, category |-> "PSF MIG Torch Part"],
    [keywords |-> <<"MFTN HEATING", "MFTA HEATING">>, category |-> "Victor Heating Tip"],
    [keywords |-> <<"HDN CUT">>, category |-> "Victor Heavy Duty Cutting Tip"],
    [keywords |-> <<"GPP GUTTING", "GPN CUTTING">>, category |-> "Victor Cutting Tip"],
    [keywords |-> <<"GTB GOUGING">>, category |-> "Victor Gouging Tip"],
    [keywords |-> <<"SLICE TRH">>, category |-> "Slice Plasma Torch Head"],
    [keywords |-> <<"SLICE">>, category |-> "Slice Plasma Consumable"],
    [keywords |-> <<"FOOT SENSOR">>, category |-> "Foot Sensor"],
    [keywords |-> <<"MOUNTING BRACKET">>, category |-> "Mounting Bracket"],
    [keywords |-> <<"PRESSURE BOGEY">>, category |-> "Pressure Bogey Kit"],
    [keywords |-> <<"CASTING SHEAVE">>, category |-> "Sheave Assembly"],
    [keywords |-> <<"RUBBER HOSE">>, category |-> "Rubber Hose"],
    [keywords |-> <<"WELDING CURRENT">>, category |-> "Welding Current Terminal"],
    [keywords |-> <<"CTO CTF">>, category |-> "Cutting Torch Outfit"],
    [keywords |-> <<"LEADS PACK">>, category |-> "Torch Leads Package"]
>>

\* starts-with rules, in list order
_STARTSWITH_CATEGORIES == <<
    [prefix |-> "HOSE ", category |-> "Hose"],
    [prefix |-> "FITTING ", category |-> "Fitting"],
    [prefix |-> "ELECTRODE ", category |-> "Electrode Part"],
    [prefix |-> "TIP ", category |-> "Tip"],
    [prefix |-> "WIRE ", category |-> "Wire Part"],
    [prefix |-> "GUIDE ", category |-> "Guide"],
    [prefix |-> "SHIELD ", category |-> "Shield"],
    [prefix |-> "ADAPT ", category |-> "Adapter"],
    [prefix |-> "SENSOR ", category |-> "Sensor"],
    [prefix |-> "CLAMP ", category |-> "Clamp"],
    [prefix |-> "PLUG ", category |-> "Plug"],
    [prefix |-> "BRACKET ", category |-> "Bracket"],
    [prefix |-> "BEARING ", category |-> "Bearing"],
    [prefix |-> "BUSHING ", category |-> "Bushing"],
    [prefix |-> "SEAL ", category |-> "Seal"],
    [prefix |-> "GASKET ", category |-> "Gasket"],
    [prefix |-> "CABLE ASSY", category |-> "Cable Assembly"],
    [prefix |-> "CABLE ", category |-> "Cable"],
    [prefix |-> "BOARD ", category |-> "Board"],
    [prefix |-> "GEAR ", category |-> "Gear"],
    [prefix |-> "BELT ", category |-> "Belt"],
    [prefix |-> "SPINDLE ", category |-> "Spindle"],
    [prefix |-> "CAPACITOR ", category |-> "Capacitor"],
    [prefix |-> "CAP ", category |-> "Cap"],
    [prefix |-> "RELAY ", category |-> "Relay"],
    [prefix |-> "TRANSFORMER ", category |-> "Transformer"],
    [prefix |-> "CONTACTOR ", category |-> "Contactor"],
    [prefix |-> "RESISTOR ", category |-> "Resistor"],
    [prefix |-> "FUSE ", category |-> "Fuse"],
    [prefix |-> "PUMP ", category |-> "Pump"],
    [prefix |-> "WHEEL ", category |-> "Wheel"],
    [prefix |-> "PIN ", category |-> "Pin"],
    [prefix |-> "NIPPLE ", category |-> "Nipple"],
    [prefix |-> "ADAPTOR ", category |-> "Adaptor"],
    [prefix |-> "ADAPTER ", category |-> "Adapter"],
    [prefix |-> "BOOT ", category |-> "Boot"],
    [prefix |-> "END CAP", category |-> "End Cap"],
    [prefix |-> "DECAL ", category |-> "Decal"],
    [prefix |-> "STICKER ", category |-> "Label"],
    [prefix |-> "TORCH ", category |-> "Torch Part"],
    [prefix |-> "VALVE ", category |-> "Valve"],
    [prefix |-> "BODY ", category |-> "Body Part"],
    [prefix |-> "TUBE ", category |-> "Tube"],
    [prefix |-> "HEAD ", category |-> "Head"],
    [prefix |-> "SEAT ", category |-> "Seat"],
    [prefix |-> "SPACER ", category |-> "Spacer"],
    [prefix |-> "KIT ", category |-> "Kit"],
    [prefix |-> "ASSY ", category |-> "Assembly"],
    [prefix |-> "SCR ", category |-> "Screw/Fastener"],
    [prefix |-> "SLEEVE ", category |-> "Sleeve"],
    [prefix |-> "RUBBER ", category |-> "Rubber Part"],
    [prefix |-> "WELDING ", category |-> "Welding Part"],
    [prefix |-> "MOUNTING ", category |-> "Mounting Part"],
    [prefix |-> "FOOT ", category |-> "Foot Part"],
    [prefix |-> "PRESSURE ", category |-> "Pressure Part"],
    [prefix |-> "CASTING ", category |-> "Casting"],
    [prefix |-> "ROTOR ", category |-> "Rotor"],
    [prefix |-> "FERRULE ", category |-> "Ferrule"],
    [prefix |-> "CONE ", category |-> "Cone"],
    [prefix |-> "RACK ", category |-> "Rack/Rail"],
    [prefix |-> "STRIP ", category |-> "Strip Cutter"],
    [prefix |-> "ROLLER ", category |-> "Roller"],
    [prefix |-> "MESH ", category |-> "Mesh Screen"],
    [prefix |-> "CENTRALIZER", category |-> "Centralizer"],
    [prefix |-> "LEADS ", category |-> "Leads Package"],
    [prefix |-> "SLICE ", category |-> "Slice Plasma Part"]
>>

\* a dict built from a literal: a key stays where it first appears and holds
\* the value written for it last
DictOf(items) ==
    LET n == Len(items)
        first(i) == \A j \in 1..(i - 1) : items[j][1] # items[i][1]
        last(i)  == CHOOSE j \in i..n :
                        /\ items[j][1] = items[i][1]
                        /\ \A k \in (j + 1)..n : items[k][1] # items[i][1]
        kept == SelectSeq([i \in 1..n |-> i], first)
    IN  [k \in 1..Len(kept) |->
            [code      |-> items[kept[k]][1],
             full_name |-> items[last(kept[k])][2],
             prod_type |-> items[last(kept[k])][3]]]

PRODUCT_LINES == DictOf(ProductLineItems)

\* the least element of a non-empty set of indexes: the first hit of a loop
FirstOf(S) == CHOOSE i \in S : \A j \in S : i <= j

InTable(table, code) == \E i \in DOMAIN table : table[i].code = code

ReadableOf(table, code) == table[CHOOSE i \in DOMAIN table : table[i].code = code].readable

\* s.replace(c, r) for a one-character c
RECURSIVE Replace(_, _, _)
Replace(s, c, r) ==
    IF s = "" THEN ""
    ELSE (IF Ch(s, 1) = c THEN r ELSE Ch(s, 1)) \o Replace(Tail(s), c, r)

\* sep.join(parts)
RECURSIVE JoinWith(_, _)
JoinWith(sep, parts) ==
    IF parts = <<>> THEN ""
    ELSE IF Len(parts) = 1 THEN parts[1]
    ELSE parts[1] \o sep \o JoinWith(sep, Tail(parts))

\* s.find(c): the 0-based index of the first c, -1 when there is none
FindChar(s, c) ==
    LET at == { i \in 1..Len(s) : Ch(s, i) = c }
    IN  IF at = {} THEN -1 ELSE FirstOf(at) - 1

\* A pattern with a group of alternatives (a|b, or an optional group) is the
\* sequence of its readings, one per alternative, in the order the re module
\* tries them at a position.

\* the first reading of pats that matches at pos, <<>> when none does
FirstReading(pats, s, pos) ==
    LET hits == { k \in DOMAIN pats : MatchFrom(pats[k], 1, s, pos) # <<>> }
    IN  IF hits = {} THEN <<>> ELSE MatchFrom(pats[FirstOf(hits)], 1, s, pos)

\* re.search on the readings pats: the leftmost match, <<>> for None
RECURSIVE SearchFrom(_, _, _)
SearchFrom(pats, s, pos) ==
    IF pos > Len(s) + 1 THEN <<>>
    ELSE LET m == FirstReading(pats, s, pos)
         IN  IF m # <<>> THEN m ELSE SearchFrom(pats, s, pos + 1)

SearchAny(pats, s) == SearchFrom(pats, s, 1)

\* re.search(pat, s)
Search(pat, s) == SearchAny(<<pat>>, s)

\* re.match on the readings pats
MatchAny(pats, s) == FirstReading(pats, s, 1)

\* re.match(pat, s)
Match(pat, s) == MatchAny(<<pat>>, s)

\* $ is matched on the text followed by EndMark, a character of no text and of
\* no class: $ holds where EndMark follows, or a last newline and EndMark
EndMark == "\f"

Marked(s) == s \o EndMark

\* $
End == Lit(<<EndMark, "\n" \o EndMark>>)

\* . of the re module: any character but a newline (the characters of the
\* descriptions: printable ASCII, tab and carriage return)
Printable ==
    " !\"#$%&'()*+,-./0123456789:;<=>?@ABCDEFGHIJKLMNOPQRSTUVWXYZ[\\]^_abcdefghijklmnopqrstuvwxyz{|}~"

Dot == { Ch(Printable, i) : i \in 1..Len(Printable) } \cup {"\t", "\r"}

Some(cs)  == Rep(cs, 1, Unbounded)
Many(cs)  == Rep(cs, 0, Unbounded)
Word(lit) == Lit(<<lit>>)

-----------------------------------------------------------------------------
(* enrichment.py: _match_product_line *)

\* sorted(keys, key=len, reverse=True) on the keys in dict order: a stable
\* sort, so codes of equal length stay in dict order
RECURSIVE LongestFirst(_, _)
LongestFirst(lines, n) ==
    IF n = 0 THEN <<>>
    ELSE SelectSeq(lines, LAMBDA e : Len(e.code) = n) \o LongestFirst(lines, n - 1)

LongestCode(lines) ==
    LET lens == { Len(lines[i].code) : i \in DOMAIN lines }
    IN  CHOOSE n \in lens : \A m \in lens : m <= n

SortedCodes_DictOrder == PRODUCT_LINES

SortedCodes == LongestFirst(PRODUCT_LINES, LongestCode(PRODUCT_LINES))

\* desc_upper.startswith(code + " ") or desc_upper == code
CodeMatches(desc_upper, code) == StartsWith(desc_upper, code \o " ") \/ desc_upper = code

\* the loop over the sorted codes: the first code that matches, <<>> for none
MatchedCode(desc_upper) ==
    LET hits == { i \in DOMAIN SortedCodes : CodeMatches(desc_upper, SortedCodes[i].code) }
    IN  IF hits = {} THEN <<>> ELSE <<SortedCodes[FirstOf(hits)]>>

\* (full_name, product_type), <<>> for None
_match_product_line(desc) ==
    LET found == MatchedCode(Strip(Upper(desc)))
    IN  IF found = <<>> THEN <<>> ELSE <<found[1].full_name, found[1].prod_type>>

-----------------------------------------------------------------------------
(* enrichment.py: _extract_diameter.  An optional string is <<>> for None and
   <<text>> otherwise. *)

\* code.replace(' ', r'\s+') read as a pattern
RECURSIVE CodePattern(_)
CodePattern(code) ==
    IF code = "" THEN <<>>
    ELSE (IF Ch(code, 1) = " " THEN <<Some(Spaces)>> ELSE <<Word(Ch(code, 1))>>)
         \o CodePattern(Tail(code))

\* (\d{3})\s*X
ThreeDigitX == <<Rep(Digits, 3, 3), Many(Spaces), Word("X")>>

\* code.replace(' ', r'\s+') + r'\s*X'
FractionX(code) == CodePattern(code) \o <<Many(Spaces), Word("X")>>

\* r'\b' + code.replace(' ', r'\s+') + r'\b'
FractionWord(code) == <<B>> \o CodePattern(code) \o <<B>>

\* code.replace(' ', r'\s*') in d.replace(' ', ''): a substring test
MetricIn(code, d) == Contains(RemoveChar(d, " "), Replace(code, " ", "\\s*"))

\* rule (a): the 3-digit codes followed by X that are in DIAMETER_MAP, as the
\* texts of the matches in the order found
RECURSIVE KnownCodes(_, _)
KnownCodes(d, matches) ==
    IF matches = <<>> THEN <<>>
    ELSE (IF InTable(DIAMETER_MAP, Group(d, Head(matches), 1, 1))
          THEN <<Group(d, Head(matches), 1, 1)>>
          ELSE <<>>)
         \o KnownCodes(d, Tail(matches))

ThreeDigitHits(d) == KnownCodes(d, FindIter(ThreeDigitX, d, 1))

\* rule (b): the entries of FRACTION_DIAMETERS found followed by X
FractionXHits(d) ==
    { i \in DOMAIN FRACTION_DIAMETERS :
          Search(FractionX(FRACTION_DIAMETERS[i].code), d) # <<>> }

\* rule (c): the entries of FRACTION_DIAMETERS found as a word
FractionWordHits(d) ==
    { i \in DOMAIN FRACTION_DIAMETERS :
          Search(FractionWord(FRACTION_DIAMETERS[i].code), d) # <<>> }

\* rule (d): the entries of METRIC_DIAMETERS found
MetricHits(d) ==
    { i \in DOMAIN METRIC_DIAMETERS : MetricIn(METRIC_DIAMETERS[i].code, d) }

_extract_diameter(desc) ==
    LET d == Upper(desc)
    IN  IF ThreeDigitHits(d) # <<>>
        THEN <<ReadableOf(DIAMETER_MAP, ThreeDigitHits(d)[1])>>
        ELSE IF FractionXHits(d) # {}
        THEN <<FRACTION_DIAMETERS[FirstOf(FractionXHits(d))].readable>>
        ELSE IF FractionWordHits(d) # {}
        THEN <<FRACTION_DIAMETERS[FirstOf(FractionWordHits(d))].readable>>
        ELSE IF MetricHits(d) # {}
        THEN <<METRIC_DIAMETERS[FirstOf(MetricHits(d))].readable>>
        ELSE <<>>

-----------------------------------------------------------------------------
(* enrichment.py: PACKAGE_PATTERNS and _extract_package *)

\* (?:\s|$)
SpaceOrEnd == Lit(<<" ", "\t", "\n", "\r", EndMark>>)

\* (\d+)F\s*TAG(?:\s|$)  ->  '<group 1> lb LABEL'
WeightRule(tag, label) ==
    [pats |-> <<<<Some(Digits), Word("F"), Many(Spaces), Word(tag), SpaceOrEnd>>>>,
     fmt |-> <<Ref(1, 1), Text(" lb " \o label)>>]

\* (\d+)X(\d+)TAIL  ->  '<group 1>" x <group 2> lb LABEL'
LengthRule(tail, label) ==
    [pats |-> <<<<Some(Digits), Word("X"), Some(Digits)>> \o tail>>,
     fmt |-> <<Ref(1, 1), Text("\" x "), Ref(3, 3), Text(" lb " \o label)>>]

PACKAGE_PATTERNS == <<
    WeightRule("DR", "Drum"),
    WeightRule("MP", "Pack"),
    WeightRule("OMP", "Pack"),
    WeightRule("PSP", "Plastic Spool"),
    WeightRule("FSP", "Fiber Spool"),
    WeightRule("SP", "Spool"),
    WeightRule("AWS", "Spool"),
    WeightRule("WB", "Wire Basket"),
    WeightRule("CL", "Coil"),
    LengthRule(<<Word("F"), Many(Spaces), Word("HS"), SpaceOrEnd>>, "Hermetically Sealed"),
    LengthRule(<<Word("F"), Many(Spaces), Word("CT"), SpaceOrEnd>>, "Carton"),
    LengthRule(<<Word("FT")>>, "Tube"),
    LengthRule(<<Word("F"), Many(Spaces), Word("VACPAK")>>, "Vacuum Pack"),
    [pats |-> <<<<Some(Digits), Word("KG"), Many(Spaces), Word("CP")>>>>,
     fmt  |-> <<Ref(1, 1), Text(" kg Pack")>>],
    [pats |-> <<<<Some(Digits), Word("KG")>>>>,
     fmt  |-> <<Ref(1, 1), Text(" kg")>>],
    \* (\d+)F(?:\s+\d+F?\s*(?:PLT|CT))?$: with the optional group, then without
    [pats |-> <<<<Some(Digits), Word("F"), Some(Spaces), Some(Digits), Lit(<<"F", "">>),
                  Many(Spaces), Lit(<<"PLT", "CT">>), End>>,
                <<Some(Digits), Word("F"), End>>>>,
     fmt  |-> <<Ref(1, 1), Text(" lb")>>],
    [pats |-> <<<<Word("X"), Many(Spaces), Word("1F"), B>>>>,
     fmt  |-> <<Text("1 lb Spool")>>]
>>

\* \d{3}X(.+)
ThreeDigitXRest == <<Rep(Digits, 3, 3), Word("X"), Some(Dot)>>

\* \d+\s+\d+X(.+)
FractionXRest == <<Some(Digits), Some(Spaces), Some(Digits), Word("X"), Some(Dot)>>

\* the text after the first NNNX or fraction-X, <<>> when there is none
PackageSuffix(d) ==
    LET xpart == Search(ThreeDigitXRest, d)
        other == Search(FractionXRest, d)
    IN  IF xpart # <<>> THEN <<Group(d, xpart, 3, 3)>>
        ELSE IF other # <<>> THEN <<Group(d, other, 5, 5)>>
        ELSE <<>>

_extract_package(desc) ==
    LET d == Upper(desc)
        suffix == PackageSuffix(d)
    IN  IF suffix = <<>> THEN <<>>
        ELSE LET text == Marked(suffix[1])
                 hits == { i \in DOMAIN PACKAGE_PATTERNS :
                               SearchAny(PACKAGE_PATTERNS[i].pats, text) # <<>> }
             IN  IF hits = {} THEN <<>>
                 ELSE LET rule == PACKAGE_PATTERNS[FirstOf(hits)]
                      IN  <<Expand(rule.fmt, text, SearchAny(rule.pats, text))>>

-----------------------------------------------------------------------------
(* enrichment.py: _categorize_hardgood *)

\* mutant: the starts-with rules tried before the keyword rules
_categorize_hardgood_PrefixFirst(desc) ==
    LET d == Upper(desc)
        anywhere == { i \in DOMAIN HARDGOODS_CATEGORIES :
                          \E k \in DOMAIN HARDGOODS_CATEGORIES[i].keywords :
                              Contains(d, HARDGOODS_CATEGORIES[i].keywords[k]) }
        starts   == { i \in DOMAIN _STARTSWITH_CATEGORIES :
                          StartsWith(d, _STARTSWITH_CATEGORIES[i].prefix) }
    IN  IF starts # {} THEN <<_STARTSWITH_CATEGORIES[FirstOf(starts)].category>>
        ELSE IF anywhere # {} THEN <<HARDGOODS_CATEGORIES[FirstOf(anywhere)].category>>
        ELSE <<>>

_categorize_hardgood(desc) ==
    LET d == Upper(desc)
        anywhere == { i \in DOMAIN HARDGOODS_CATEGORIES :
                          \E k \in DOMAIN HARDGOODS_CATEGORIES[i].keywords :
                              Contains(d, HARDGOODS_CATEGORIES[i].keywords[k]) }
        starts   == { i \in DOMAIN _STARTSWITH_CATEGORIES :
                          StartsWith(d, _STARTSWITH_CATEGORIES[i].prefix) }
    IN  IF anywhere # {} THEN <<HARDGOODS_CATEGORIES[FirstOf(anywhere)].category>>
        ELSE IF starts # {} THEN <<_STARTSWITH_CATEGORIES[FirstOf(starts)].category>>
        ELSE <<>>

-----------------------------------------------------------------------------
(* enrichment.py: decode_description *)

\* \d{3}\s*X|\d+\s+\d+\s*X
SizePattern ==
    <<<<Rep(Digits, 3, 3), Many(Spaces), Word("X")>>,
      <<Some(Digits), Some(Spaces), Some(Digits), Many(Spaces), Word("X")>>>>

\* mutant: the guard without the length test
GuardedHardgood_AnyCode(desc, matched_code) ==
    LET desc_upper == Upper(desc)
        remainder  == Strip(SubSeq(desc_upper, Len(matched_code) + 1, Len(desc_upper)))
    IN  IF SearchAny(SizePattern, remainder) = <<>>
        THEN _categorize_hardgood(desc)
        ELSE <<>>

\* the short-code guard: the hardgoods category that replaces the product line
GuardedHardgood(desc, matched_code) ==
    LET desc_upper == Upper(desc)
        remainder  == Strip(SubSeq(desc_upper, Len(matched_code) + 1, Len(desc_upper)))
    IN  IF Len(matched_code) <= 3 /\ SearchAny(SizePattern, remainder) = <<>>
        THEN _categorize_hardgood(desc)
        ELSE <<>>

\* the 36" override of the product type
\* the override without the alloy annotation of the original type
ProductType_NoAlloy(desc_upper, prod_type) ==
    IF Contains(desc_upper, "X36") /\ ~Contains(Upper(prod_type), "TIG")
    THEN "TIG Rod"
    ELSE prod_type

ProductType(desc_upper, prod_type) ==
    IF Contains(desc_upper, "X36") /\ ~Contains(Upper(prod_type), "TIG")
    THEN LET paren == FindChar(prod_type, "(")
             alloy_info == IF paren >= 0
                           THEN " " \o SubSeq(prod_type, paren + 1, Len(prod_type))
                           ELSE ""
         IN  "TIG Rod" \o alloy_info
    ELSE prod_type

PartSeparator_Times == " x "

PartSeparator == " | "

\* the parts of a product line item, joined
ProductLineText(desc, line_match) ==
    LET parts == <<line_match[1], ProductType(Upper(desc), line_match[2])>>
                 \o SelectSeq(_extract_diameter(desc), Truthy)
                 \o SelectSeq(_extract_package(desc), Truthy)
    IN  JoinWith(PartSeparator, parts)

\* ^(\d{3})\s+(.+)
LeadingDiameter == <<Rep(Digits, 3, 3), Some(Spaces), Some(Dot)>>

\* ^(\d+\s+\d+)\s+X\s+(.+)
LeadingFraction ==
    <<Some(Digits), Some(Spaces), Some(Digits), Some(Spaces), Word("X"), Some(Spaces), Some(Dot)>>

BareRodWords == <<"BARE", "BOROD", "ATB", "CTS", "BTS">>

\* ^\d+\s+ followed by the rest of a pattern
Numbered(rest) == <<Some(Digits), Some(Spaces)>> \o rest

\* the patterns for gas apparatus parts with a numeric prefix, in the order tried
VictorRules == <<
    [pats  |-> <<Numbered(<<Lit(<<"DEG", "DEGREE">>), Some(Spaces), Lit(<<"HEAD", "BODY">>)>>)>>,
     label |-> "Victor/Gas Apparatus | Torch Head"],
    [pats  |-> <<Numbered(<<Lit(<<"AMP", "AMPS">>), Some(Spaces)>>)>>,
     label |-> "Plasma Consumable"],
    [pats  |-> <<Numbered(<<Word("B"), Some(Spaces), Some(Digits), Some(Spaces), Word("ELBOW")>>),
                 Numbered(<<Word("ELBOW")>>)>>,
     label |-> "Victor/Gas Apparatus | Elbow"],
    [pats  |-> <<Numbered(<<Lit(<<"MFTN", "MFTA", "MFT">>), Some(Spaces), Word("HEATING")>>)>>,
     label |-> "Victor Heating Tip"],
    [pats  |-> <<Numbered(<<Lit(<<"HDN", "HDA">>), Some(Spaces), Word("CUT")>>)>>,
     label |-> "Victor Cutting Tip"],
    [pats  |-> <<Numbered(<<Lit(<<"GPP", "GPN", "GTB", "GTS">>), Some(Spaces)>>)>>,
     label |-> "Victor Gas Tip"],
    [pats  |-> <<Numbered(<<Lit(<<"LDS", "LEADS">>), Some(Spaces)>>)>>,
     label |-> "Torch Leads Package"],
    [pats  |-> <<Numbered(<<Word("M"), Some(Spaces), Some(Digits)>>),
                 Numbered(<<Word("4M"), Some(Spaces)>>)>>,
     label |-> "MIG Gun"]
>>

\* the regex fallbacks and, when none applies, the text itself
Fallback_Upper(desc) == Upper(desc)

Fallback(desc) ==
    LET d_upper == Upper(desc)
        m3      == Match(LeadingDiameter, d_upper)
        mf      == Match(LeadingFraction, d_upper)
        victor  == { i \in DOMAIN VictorRules : MatchAny(VictorRules[i].pats, d_upper) # <<>> }
    IN  IF m3 # <<>> /\ InTable(DIAMETER_MAP, Group(d_upper, m3, 1, 1))
        THEN JoinWith(" | ",
                 <<"Hardfacing/Specialty Wire",
                   ReadableOf(DIAMETER_MAP, Group(d_upper, m3, 1, 1))>>
                 \o SelectSeq(_extract_package(desc), Truthy)
                 \o <<Strip(Group(d_upper, m3, 3, 3))>>)
        ELSE IF mf # <<>> /\ InTable(FRACTION_DIAMETERS, Group(d_upper, mf, 1, 3))
        THEN LET remainder == Strip(Group(d_upper, mf, 7, 7))
                 prod_type == IF AnyIn(BareRodWords, remainder) THEN "Bare Rod / Brazing Alloy"
                              ELSE IF Contains(remainder, "HORSESHOE") THEN "Horseshoe Bare Rod"
                              ELSE "Rod / Filler"
             IN  prod_type \o " | "
                 \o ReadableOf(FRACTION_DIAMETERS, Group(d_upper, mf, 1, 3))
                 \o " | " \o remainder
        ELSE IF victor # {} THEN VictorRules[FirstOf(victor)].label \o " | " \o desc
        ELSE desc

\* mutant: the regex fallbacks tried before the hardgoods rules
decode_description_FallbackFirst(x) ==
    LET desc == Strip(x)
    IN  IF desc = "" THEN ""
        ELSE LET line_match == _match_product_line(desc)
                 matched    == MatchedCode(Upper(desc))
                 hardgood   == IF matched = <<>> THEN <<>>
                               ELSE GuardedHardgood(desc, matched[1].code)
                 category   == _categorize_hardgood(desc)
             IN  IF line_match # <<>>
                 THEN IF hardgood # <<>>
                      THEN hardgood[1] \o " | " \o desc
                      ELSE ProductLineText(desc, line_match)
                 ELSE IF Fallback(desc) # desc THEN Fallback(desc)
                 ELSE IF category # <<>> THEN category[1] \o " | " \o desc
                 ELSE desc

decode_description(x) ==
    LET desc == Strip(x)
    IN  IF desc = "" THEN ""
        ELSE LET line_match == _match_product_line(desc)
                 matched    == MatchedCode(Upper(desc))
                 hardgood   == IF matched = <<>> THEN <<>>
                               ELSE GuardedHardgood(desc, matched[1].code)
                 category   == _categorize_hardgood(desc)
             IN  IF line_match # <<>>
                 THEN IF hardgood # <<>>
                      THEN hardgood[1] \o " | " \o desc
                      ELSE ProductLineText(desc, line_match)
                 ELSE IF category # <<>> THEN category[1] \o " | " \o desc
                 ELSE Fallback(desc)

-----------------------------------------------------------------------------
(* The descriptions decoded, and the actions of the enrichment side: each
   function of enrichment.py called on a raw description *)

DescArgs == {
    "AA 7018 1 8X14X50FHS", "WELD 70S 6 045X44F", "weld 70s 6 045x44f sp",
    " AA 7018 M 5 32X14 ", "AA 7018 M 5 32X14", "AA", "AA T 1 8", "AAX 7",
    "DS CABLE", "DS 045X33F SP", "SW NOZZLE 035X2",
    "86 1 6MM", "1 6MM", "86 1\\s*6MM", "OK 12 51 1 2MM", "ER4043 3 64",
    "WELD 70S 6 045X36", "WELD 70S 6 TIG 1 16X36",
    "CONTACT TIP HD 035", "WELDING CABLE 2 0", "CABLE", "TIP 12",
    "045 102 G 33F WB", "1 8 X 14 BARE BOROD", "75 DEG HEAD", "50 AMP XT",
    "zzz", "  zzz  ", "Rod 7 ", "Rod 7", "", "   ",
    "1 16X045X", "1 16 1 8X14", "123X045X",
    " DS CABLE ", "AA 7018 CABLE", "DS NOZZLE 12 8X",
    "QUICK CONNECTOR", "HEAT SHIELD", "TIP CONTACT TIP", "HOSE CABLE",
    "50 AMP CABLE", "045 CABLE 33F", "86 DEG HEAD", "1 8 X 14 CABLE",
    "DS X36", "DS CABLE X36", "Tip 12 "
}

EnrichFns ==
    {"_match_product_line", "_extract_diameter", "_extract_package",
     "_categorize_hardgood", "decode_description"}

\* what each function returns, once per description
MatchedLines == [desc \in DescArgs |-> _match_product_line(desc)]

ExtractedDiameters == [desc \in DescArgs |-> _extract_diameter(desc)]

ExtractedPackages == [desc \in DescArgs |-> _extract_package(desc)]

Categories == [desc \in DescArgs |-> _categorize_hardgood(desc)]

Decoded == [desc \in DescArgs |-> decode_description(desc)]

NoEnrichCall == [fn |-> "", desc |-> "", result |-> <<>>]

\* a call returns: it is the last call, the call before it is remembered; two
\* calls are followed
EnrichReturn(fn, desc, result) ==
    /\ enrich_prev = NoEnrichCall
    /\ enrich_prev' = enrich_call
    /\ enrich_call' = [fn |-> fn, desc |-> desc, result |-> result]
    /\ UNCHANGED <<pricing_vars, search_vars, basket_vars>>

MatchProductLine(desc) == EnrichReturn("_match_product_line", desc, MatchedLines[desc])

ExtractDiameter(desc) == EnrichReturn("_extract_diameter", desc, ExtractedDiameters[desc])

ExtractPackage(desc) == EnrichReturn("_extract_package", desc, ExtractedPackages[desc])

CategorizeHardgood(desc) == EnrichReturn("_categorize_hardgood", desc, Categories[desc])

DecodeDescription(desc) == EnrichReturn("decode_description", desc, <<Decoded[desc]>>)

EnrichInit ==
    /\ enrich_call = NoEnrichCall
    /\ enrich_prev = NoEnrichCall

EnrichNext ==
    \/ \E desc \in DescArgs : MatchProductLine(desc)
    \/ \E desc \in DescArgs : ExtractDiameter(desc)
    \/ \E desc \in DescArgs : ExtractPackage(desc)
    \/ \E desc \in DescArgs : CategorizeHardgood(desc)
    \/ \E desc \in DescArgs : DecodeDescription(desc)

-----------------------------------------------------------------------------
(* app.py: the quote basket of a session, st.session_state.basket *)

\* the part numbers of the result cards with an "Add to Quote" button
BasketParts == {"AB12", "W70"}

\* what a card hands to _add_to_basket besides the part number: description,
\* uom, unit_price (in cents), source and source_file of the best price
BasketOffers ==
    { [description |-> "CABLE", uom |-> "EA", unit_price |-> 1250,
       source |-> "master", source_file |-> "master.xlsx"],
      [description |-> "Cable | CABLE", uom |-> "FT", unit_price |-> 990,
       source |-> "end_user", source_file |-> ""] }

\* the dict appended by _add_to_basket
BasketItem(part_number, offer) ==
    [part_number |-> part_number, description |-> offer.description, uom |-> offer.uom,
     qty |-> 1, unit_price |-> offer.unit_price, source |-> offer.source,
     source_file |-> offer.source_file]

\* _add_to_basket that appends without looking for the part number
_add_to_basket_Append(items, part_number, offer) ==
    Append(items, BasketItem(part_number, offer))

\* _add_to_basket: the first item with the part number gets qty += 1 and the
\* function returns; without one, a new item with qty 1 is appended
_add_to_basket(items, part_number, offer) ==
    LET found == { i \in DOMAIN items : items[i].part_number = part_number }
    IN  IF found # {}
        THEN [items EXCEPT ![FirstOf(found)].qty = @ + 1]
        ELSE Append(items, BasketItem(part_number, offer))

\* _remove_from_basket: [i for i in basket if i["part_number"] != part_number]
_remove_from_basket(items, part_number) ==
    LET Other(item) == item.part_number # part_number
    IN  SelectSeq(items, Other)

\* what is known of a part number outside the basket: no add yet, qty not edited
NoAdds == [adds |-> 0, edited |-> FALSE]

NoBasketCall == [op |-> "", part_number |-> "", unit_price |-> 0]

\* _init_basket() of a new session
BasketInit ==
    /\ basket = <<>>
    /\ basket_log = [p \in BasketParts |-> NoAdds]
    /\ basket_call = NoBasketCall

\* the "Add to Quote" button of a card
AddToBasket(part_number, offer) ==
    /\ basket_log[part_number].adds < MaxAdds
    /\ basket' = _add_to_basket(basket, part_number, offer)
    /\ basket_log' = [basket_log EXCEPT ![part_number].adds = @ + 1]
    /\ basket_call' = [op |-> "add", part_number |-> part_number,
                       unit_price |-> offer.unit_price]
    /\ UNCHANGED <<pricing_vars, search_vars, enrich_vars>>

\* the "X" button of a basket line
RemoveFromBasket(part_number) ==
    /\ basket' = _remove_from_basket(basket, part_number)
    /\ basket_log' = [basket_log EXCEPT ![part_number] = NoAdds]
    /\ basket_call' = [NoBasketCall EXCEPT !.op = "remove", !.part_number = part_number]
    /\ UNCHANGED <<pricing_vars, search_vars, enrich_vars>>

\* the quantity field of basket line i: basket[i]["qty"] = new_qty, min_value 1
SetQty(i, new_qty) ==
    /\ i \in DOMAIN basket
    /\ new_qty # basket[i].qty
    /\ basket' = [basket EXCEPT ![i].qty = new_qty]
    /\ basket_log' = [basket_log EXCEPT ![basket[i].part_number].edited = TRUE]
    /\ basket_call' = [NoBasketCall EXCEPT !.op = "qty", !.part_number = basket[i].part_number]
    /\ UNCHANGED <<pricing_vars, search_vars, enrich_vars>>

\* the "Clear Basket" button, shown with a basket that is not empty
ClearBasket ==
    /\ basket # <<>>
    /\ basket' = <<>>
    /\ basket_log' = [p \in BasketParts |-> NoAdds]
    /\ basket_call' = [NoBasketCall EXCEPT !.op = "clear"]
    /\ UNCHANGED <<pricing_vars, search_vars, enrich_vars>>

BasketNext ==
    \/ \E part_number \in BasketParts, offer \in BasketOffers : AddToBasket(part_number, offer)
    \/ \E part_number \in BasketParts : RemoveFromBasket(part_number)
    \/ \E i \in 1..Cardinality(BasketParts), new_qty \in 1..MaxQty : SetQty(i, new_qty)
    \/ ClearBasket

vars == <<pricing_vars, search_vars, enrich_vars, basket_vars>>

Init == PricingInit /\ SearchInit /\ EnrichInit /\ BasketInit

SpecPricing == Init /\ [][PricingNext]_vars

SpecSearch == Init /\ [][SearchNext]_vars

SpecEnrich == Init /\ [][EnrichNext]_vars

SpecBasket == Init /\ [][BasketNext]_vars

-----------------------------------------------------------------------------
(* A session: the files are loaded, then get_pricing, find_variants and
   search_products are called in any order on the loaded data *)

\* _process_file on a special-pricing file
RECURSIVE NormalizeAllSpecial(_)
NormalizeAllSpecial(file) ==
    IF file = <<>> THEN <<>>
    ELSE <<normalize_special(Head(file))>> \o NormalizeAllSpecial(Tail(file))

SessionFiles ==
    { [master   |-> << [part_number |-> "P1", description |-> "ROD ",
                        list_price |-> 1000000, tier_price |-> 900000],
                       [part_number |-> " P2", description |-> "",
                        list_price |-> 1000004, tier_price |-> NaN] >>,
       end_user |-> << [part_number |-> "P1", description |-> "EU ROD", price |-> 850000,
                        alloy_surcharge |-> NaN, tariff_surcharge |-> NaN,
                        end_user_name |-> "Acme ", customer_name |-> "Dist",
                        city |-> "", state |-> ""] >>,
       location |-> << [part_number |-> "P1", description |-> "LOC ROD", price |-> 700000,
                        alloy_surcharge |-> 6, tariff_surcharge |-> 0,
                        end_user_name |-> "", customer_name |-> "Bolt",
                        city |-> "Austin", state |-> "TX"] >>,
       catalog  |-> << [part_number |-> "AB12", description |-> "CABLE",
                        enriched_description |-> "CABLE"],
                       [part_number |-> "AB 12", description |-> "CABLE 045",
                        enriched_description |-> ""],
                       [part_number |-> "CD34", description |-> "CABLE",
                        enriched_description |-> "CABLE"] >>],
      [master   |-> FamilyFile, end_user |-> <<>>, location |-> <<>>,
       catalog  |-> << [part_number |-> "W70", description |-> "WELD 70S 6 045",
                        enriched_description |-> "MIG Wire"] >>] }

\* the calls of a session: the function and its arguments
SessionCalls ==
    { [fn |-> "get_pricing",     args |-> <<"P1", "D1", "", "">>],
      [fn |-> "get_pricing",     args |-> <<"P1", "D1", "Acme", "">>],
      [fn |-> "find_variants",   args |-> <<"P1", "ROD", "D1">>],
      [fn |-> "find_variants",   args |-> <<"WELD70-A", "WIRE 045", "D1">>],
      [fn |-> "search_products", args |-> <<"cable", 2, 30>>],
      [fn |-> "search_products", args |-> <<"s6 wire 0.045", 2, 30>>] }

\* the similarity the library returns in a session
SessionFuzzy(master_df) == [i \in 1..Len(master_df) |-> 100]

\* master_df after search_products returned: result = master_df.copy() takes
\* the match_score column, the frame passed in keeps its rows and columns
FrameAfterSearch_InPlace(master_df, scores) ==
    [i \in 1..Len(master_df) |->
        [part_number |-> master_df[i].part_number,
         description |-> master_df[i].description,
         enriched_description |-> master_df[i].enriched_description,
         match_score |-> scores[i]]]

FrameAfterSearch(master_df, scores) == master_df

\* what a call can return on the loaded data
ResultsOf(c) ==
    IF c.fn = "get_pricing"
    THEN {get_pricing(c.args[1], c.args[2], c.args[3], c.args[4])}
    ELSE IF c.fn = "find_variants"
    THEN {find_variants(c.args[1], c.args[2], c.args[3])}
    ELSE search_products(c.args[1], catalog, c.args[2], c.args[3], SessionFuzzy(catalog))

\* numpy's sort and rapidfuzz are deterministic functions: on an equal frame
\* and equal arguments a later search gets the arrangement of an earlier one
SameLibraryOutcome(c, result) ==
    \A k \in 1..Len(calls) :
        (c.fn = "search_products" /\ calls[k].fn = c.fn /\ calls[k].args = c.args
         /\ calls[k].frame = catalog)
            => result = calls[k].result

LoadSession(files) ==
    /\ calls = <<>>
    /\ master = <<>> /\ end_user = <<>> /\ location = <<>> /\ catalog = <<>>
    /\ master' = NormalizeAll(files.master)
    /\ end_user' = NormalizeAllSpecial(files.end_user)
    /\ location' = NormalizeAllSpecial(files.location)
    /\ catalog' = files.catalog
    /\ UNCHANGED <<pricing_call, pricing_result, variants_call, variants_result,
                   item_call, item_score, parse_call, search_call, search_result, calls>>
    /\ UNCHANGED <<enrich_vars, basket_vars>>

SessionCall(c) ==
    /\ Len(calls) < MaxCalls
    /\ \E result \in ResultsOf(c) :
          /\ SameLibraryOutcome(c, result)
          /\ calls' = Append(calls, [fn |-> c.fn, args |-> c.args, frame |-> catalog,
                                     result |-> result])
    /\ catalog' = IF c.fn = "search_products" /\ catalog # <<>>
                     /\ Parsed(c.args[1]).tokens # <<>>
                  THEN FrameAfterSearch(catalog, Scores(c.args[1], catalog,
                                                       SessionFuzzy(catalog)))
                  ELSE catalog
    /\ UNCHANGED <<master, end_user, location, pricing_call, pricing_result,
                   variants_call, variants_result,
                   item_call, item_score, parse_call, search_call, search_result>>
    /\ UNCHANGED <<enrich_vars, basket_vars>>

SessionNext ==
    \/ \E files \in SessionFiles : LoadSession(files)
    \/ \E c \in SessionCalls : SessionCall(c)

SpecSession == Init /\ [][SessionNext]_vars


-----------------------------------------------------------------------------
(* Vocabulary of the pricing claims, stated on the loaded rows and the
   returned ProductPricing and not through the operators of get_pricing *)

Called     == pricing_call.made
BestPrice  == pricing_result.best_price
AllPrices  == pricing_result.all_prices

\* the rank the specification gives each source tag
SpecRank(source) ==
    IF source = "Location Special" THEN 1
    ELSE IF source = "End User" THEN 2
    ELSE IF source = "Master Tier" THEN 3
    ELSE 4

\* the rows of a layer the call is about: its partition, its trimmed part number
CallRows(df) ==
    IF pricing_call.distributor_key = LoadedKey
    THEN { i \in 1..Len(df) : df[i].part_number = Strip(pricing_call.part_number) }
    ELSE {}

StrictlyPositive(p) == p # NaN /\ p > 0

\* an end-user row the specification calls applicable to the selected end user
SpecEndUserApplies(row) ==
    \/ pricing_call.selected_end_user = ""
    \/ pricing_call.selected_end_user = row.end_user_name
    \/ pricing_call.selected_end_user = row.customer_name
    \/ pricing_call.selected_end_user =
          (IF row.end_user_name # "" THEN row.end_user_name ELSE row.customer_name)

SourcesOf(entries) == [i \in 1..Len(entries) |-> entries[i].source]

CountSource(source) ==
    Cardinality({ i \in 1..Len(AllPrices) : AllPrices[i].source = source })

(* C1: whenever get_pricing returns a best_price, it is the first element of
   all_prices, its precedence rank is <= the rank of every entry of all_prices,
   and among the entries of its own rank it has the minimal total. *)
C1_BestPrecedence ==
    (Called /\ BestPrice # <<>>) =>
        /\ AllPrices # <<>>
        /\ BestPrice[1] = AllPrices[1]
        /\ \A i \in 1..Len(AllPrices) :
              /\ SpecRank(BestPrice[1].source) <= SpecRank(AllPrices[i].source)
              /\ SpecRank(BestPrice[1].source) = SpecRank(AllPrices[i].source)
                    => BestPrice[1].total <= AllPrices[i].total

\* a lookup whose best entry beat a dearer entry of its own rank that the loops
\* appended first, and a cheaper entry of a lower layer
C1_Witness ==
    /\ Called /\ BestPrice # <<>>
    /\ BestPrice[1].source = "End User"
    /\ Len(end_user) = 2
    /\ StrictlyPositive(end_user[1].price) /\ StrictlyPositive(end_user[2].price)
    /\ end_user[1].price > end_user[2].price
    /\ \E i \in 2..Len(AllPrices) :
          /\ AllPrices[i].source = "End User"
          /\ AllPrices[i].total > BestPrice[1].total

(* C2: all_prices is sorted by (precedence rank ascending, total ascending);
   for one part with Master List 10, Master Tier 9 and one End User row "Acme"
   at 8.50 and no filter, best_price is the End User 8.50 entry and the order
   is [End User, Master Tier, Master List]. *)
C2_Example ==
    /\ Len(master) = 1 /\ Len(end_user) = 1 /\ Len(location) = 0
    /\ master[1].part_number = "P1"
    /\ master[1].list_price = 1000000 /\ master[1].tier_price = 900000
    /\ end_user[1].part_number = "P1" /\ end_user[1].end_user_name = "Acme"
    /\ end_user[1].price = 850000
    /\ end_user[1].alloy_surcharge = 0 /\ end_user[1].tariff_surcharge = 0
    /\ Called
    /\ pricing_call.part_number = "P1" /\ pricing_call.distributor_key = "D1"
    /\ pricing_call.selected_end_user = "" /\ pricing_call.selected_location = ""

C2_SortedByRankThenTotal ==
    Called =>
        /\ \A i, j \in 1..Len(AllPrices) :
              i < j =>
                \/ SpecRank(AllPrices[i].source) < SpecRank(AllPrices[j].source)
                \/ /\ SpecRank(AllPrices[i].source) = SpecRank(AllPrices[j].source)
                   /\ AllPrices[i].total <= AllPrices[j].total
        /\ C2_Example =>
              /\ SourcesOf(AllPrices) = <<"End User", "Master Tier", "Master List">>
              /\ BestPrice # <<>>
              /\ BestPrice[1].source = "End User"
              /\ BestPrice[1].price = 850000 /\ BestPrice[1].total = 850000
              /\ BestPrice[1].context = "Acme"

\* the example of the claim has been looked up
C2_Witness == C2_Example /\ Len(AllPrices) = 3

(* C3: if no master, end-user or location row of the part carries a strictly
   positive price (no rows, or only zero, negative or missing prices),
   get_pricing returns best_price = None and an empty all_prices. *)
C3_NoPositiveRow ==
    /\ \A i \in CallRows(master) :
          ~StrictlyPositive(master[i].list_price) /\ ~StrictlyPositive(master[i].tier_price)
    /\ \A i \in CallRows(end_user) : ~StrictlyPositive(end_user[i].price)
    /\ \A i \in CallRows(location) : ~StrictlyPositive(location[i].price)

C3_NoBestWithoutPositivePrice ==
    (Called /\ C3_NoPositiveRow) => (BestPrice = <<>> /\ AllPrices = <<>>)

\* a lookup of a part that has a zero, a negative and a missing price, and
\* nothing positive
C3_Witness ==
    /\ Called /\ C3_NoPositiveRow
    /\ \E i \in CallRows(master) : master[i].list_price = 0 /\ master[i].tier_price < 0
    /\ \E i \in CallRows(end_user) : end_user[i].price = NaN
    /\ BestPrice = <<>>


(* C4: when selected_location is set to a label that equals no location row's
   composed label for the part, all_prices holds no Location Special entry and
   best_price is the entry of the highest-precedence remaining layer: End User
   if an applicable one exists, else Master Tier, else Master List, else None. *)
C4_UnmatchedLocation ==
    /\ Called
    /\ pricing_call.selected_location # ""
    /\ \A i \in CallRows(location) :
          LocationContext(location[i]) # pricing_call.selected_location

C4_EndUserRemains ==
    \E i \in CallRows(end_user) :
        StrictlyPositive(end_user[i].price) /\ SpecEndUserApplies(end_user[i])

C4_TierRemains == \E i \in CallRows(master) : StrictlyPositive(master[i].tier_price)

C4_ListRemains == \E i \in CallRows(master) : StrictlyPositive(master[i].list_price)

C4_FallbackWithoutLocation ==
    C4_UnmatchedLocation =>
        /\ CountSource("Location Special") = 0
        /\ IF C4_EndUserRemains
             THEN BestPrice # <<>> /\ BestPrice[1].source = "End User"
           ELSE IF C4_TierRemains
             THEN BestPrice # <<>> /\ BestPrice[1].source = "Master Tier"
           ELSE IF C4_ListRemains
             THEN BestPrice # <<>> /\ BestPrice[1].source = "Master List"
           ELSE BestPrice = <<>>

\* a location row of the part with a positive price is shut out by a filter
\* that is not its composed label, and the best falls back to a lower layer
C4_Witness ==
    /\ C4_UnmatchedLocation
    /\ \E i \in CallRows(location) : StrictlyPositive(location[i].price)
    /\ BestPrice # <<>>
    /\ BestPrice[1].source \in {"End User", "Master Tier"}

(* C5: a positive-price master entry of the part is included whatever
   selected_end_user and selected_location are; a positive-price end-user row
   is included if and only if selected_end_user is unset or equals the row's
   end_user_name, its customer_name or its context label. *)
C5_LayerApplicability ==
    Called =>
        /\ \A i \in CallRows(master) :
              /\ StrictlyPositive(master[i].list_price) =>
                    \E k \in 1..Len(AllPrices) :
                        /\ AllPrices[k].source = "Master List"
                        /\ AllPrices[k].price = master[i].list_price
              /\ StrictlyPositive(master[i].tier_price) =>
                    \E k \in 1..Len(AllPrices) :
                        /\ AllPrices[k].source = "Master Tier"
                        /\ AllPrices[k].price = master[i].tier_price
        /\ CountSource("Master List") =
              Cardinality({ i \in CallRows(master) : StrictlyPositive(master[i].list_price) })
        /\ CountSource("Master Tier") =
              Cardinality({ i \in CallRows(master) : StrictlyPositive(master[i].tier_price) })
        /\ \A i \in CallRows(end_user) :
              (StrictlyPositive(end_user[i].price) /\ SpecEndUserApplies(end_user[i])) =>
                    \E k \in 1..Len(AllPrices) :
                        /\ AllPrices[k].source = "End User"
                        /\ AllPrices[k].price = end_user[i].price
                        /\ AllPrices[k].context \in
                              {end_user[i].end_user_name, end_user[i].customer_name}
        /\ CountSource("End User") =
              Cardinality({ i \in CallRows(end_user) :
                              /\ StrictlyPositive(end_user[i].price)
                              /\ SpecEndUserApplies(end_user[i]) })

\* a filtered lookup that keeps a row matching by its customer name only, and
\* drops another positive-price row of the part
C5_Witness ==
    /\ Called
    /\ pricing_call.selected_end_user = "Dist"
    /\ CountSource("End User") = 1
    /\ \E i, j \in CallRows(end_user) :
          /\ StrictlyPositive(end_user[i].price) /\ StrictlyPositive(end_user[j].price)
          /\ end_user[i].customer_name = "Dist" /\ end_user[i].end_user_name = "Acme"
          /\ end_user[j].customer_name = "Acme"

(* C6: if selected_end_user is set, every special-pricing entry of all_prices
   (End User or Location Special) is that end user's pricing, and if
   selected_location is set, every special-pricing entry is that location's
   pricing; no special entry of a different customer is included or chosen as
   best_price. *)
C6_EntryOfEndUser(e) ==
    \/ /\ e.source = "End User"
       /\ \E i \in CallRows(end_user) :
             /\ end_user[i].price = e.price /\ EndUserContext(end_user[i]) = e.context
             /\ pricing_call.selected_end_user \in
                   {end_user[i].end_user_name, end_user[i].customer_name}
    \/ /\ e.source = "Location Special"
       /\ \E i \in CallRows(location) :
             /\ location[i].price = e.price /\ LocationContext(location[i]) = e.context
             /\ pricing_call.selected_end_user \in
                   {location[i].end_user_name, location[i].customer_name}

C6_EntryOfLocation(e) ==
    e.source = "Location Special" /\ e.context = pricing_call.selected_location

C6_OnlySelectedLayer ==
    Called =>
        \A k \in 1..Len(AllPrices) :
            AllPrices[k].source \in {"End User", "Location Special"} =>
                /\ pricing_call.selected_end_user # "" => C6_EntryOfEndUser(AllPrices[k])
                /\ pricing_call.selected_location # "" => C6_EntryOfLocation(AllPrices[k])

(* C7: every PriceEntry of all_prices has price > 0 and
   total = round(price + surcharges, 4), where surcharges is alloy_surcharge +
   tariff_surcharge of the source row for End User and Location Special entries
   and 0 for Master List and Master Tier entries. *)
\* t is x rounded to 4 decimals: a multiple of 10 units, nearest to x
C7_IsRounded4(t, x) ==
    /\ t % 10 = 0
    /\ t - x <= 5 /\ x - t <= 5

C7_SurchargesOfSource(e) ==
    IF e.source \in {"Master List", "Master Tier"} THEN e.surcharges = 0
    ELSE IF e.source = "End User"
    THEN \E i \in CallRows(end_user) :
            /\ end_user[i].price = e.price
            /\ e.surcharges = end_user[i].alloy_surcharge + end_user[i].tariff_surcharge
    ELSE \E i \in CallRows(location) :
            /\ location[i].price = e.price
            /\ e.surcharges = location[i].alloy_surcharge + location[i].tariff_surcharge

C7_EntryTotals ==
    Called =>
        \A k \in 1..Len(AllPrices) :
            /\ AllPrices[k].price > 0
            /\ C7_SurchargesOfSource(AllPrices[k])
            /\ C7_IsRounded4(AllPrices[k].total, AllPrices[k].price + AllPrices[k].surcharges)

\* the claim as written adds: so a master entry's total equals its price
C7_TotalsAsClaimed ==
    C7_EntryTotals /\
    (Called =>
        \A k \in 1..Len(AllPrices) :
            AllPrices[k].source \in {"Master List", "Master Tier"} =>
                AllPrices[k].total = AllPrices[k].price)

\* an entry whose surcharges were folded in and whose sum was rounded, beside
\* a master entry
C7_Witness ==
    /\ Called
    /\ \E k \in 1..Len(AllPrices) :
          /\ AllPrices[k].surcharges > 0
          /\ AllPrices[k].total # AllPrices[k].price + AllPrices[k].surcharges
          /\ AllPrices[k].total > AllPrices[k].price
    /\ \E k \in 1..Len(AllPrices) : AllPrices[k].source = "Master List"

-----------------------------------------------------------------------------
(* Vocabulary of the search claims, stated on the catalog, the arguments of
   the call and the value returned *)

Searched    == search_call.made
ResultRows  == search_result.rows
ItemScored  == item_call.made
ItemRow     == item_call.row

\* a score of the claims, in the unit of the model
SpecScore(n) == n * ScoreScale

\* text with its spaces removed
SpecFlat(text) == RemoveChar(text, " ")

\* the normalized query with spaces removed equals the part number uppercased
\* with spaces removed
SpecExactMatch(query, part_number) ==
    SpecFlat(Parsed(query).normalized) = SpecFlat(Upper(part_number))

\* the rows of the catalog whose score reaches min_score, as positions
Qualifying ==
    { i \in 1..Len(search_call.scores) :
        search_call.scores[i] >= SpecScore(search_call.min_score) }

Returned == { ResultRows[k].idx : k \in 1..Len(ResultRows) }

-----------------------------------------------------------------------------
(* C8: if the normalized query with spaces removed equals the row's
   part_number uppercased with spaces removed, _score_item returns 100,
   whatever the token hits, the fuzzy similarity, the bonuses and penalties
   are, including when the part number itself contains spaces. *)
C8_ExactMatchScores100 ==
    /\ ItemScored /\ SpecExactMatch(item_call.query, ItemRow.part_number)
          => item_score = SpecScore(100)
    /\ \A i \in 1..Len(search_call.scores) :
          SpecExactMatch(search_call.query, catalog[i].part_number)
              => search_call.scores[i] = SpecScore(100)

-----------------------------------------------------------------------------
(* C9: for any query, catalog, cap >= 0 and min_score, search_products
   returns at most cap rows, and every returned row has
   match_score >= min_score. *)
C9_CapAndThreshold ==
    Searched /\ search_call.max_results >= 0
        => /\ Len(ResultRows) <= search_call.max_results
           /\ \A k \in 1..Len(ResultRows) :
                 ResultRows[k].match_score >= SpecScore(search_call.min_score)

\* a call with cap 1 on a catalog where two rows reach min_score and a third
\* row with a positive score does not: one row is returned
C9_Witness ==
    /\ Searched
    /\ search_call.max_results = 1
    /\ Cardinality(Qualifying) >= 2
    /\ \E i \in 1..Len(search_call.scores) :
          /\ search_call.scores[i] > 0
          /\ search_call.scores[i] < SpecScore(search_call.min_score)
    /\ Len(ResultRows) = 1

-----------------------------------------------------------------------------
(* C10: search_products returns rows in non-increasing match_score order,
   rows with equal score appear in their original catalog order, and
   truncation to the cap keeps the highest-scoring rows: no qualifying row
   left out has a score greater than a returned row. *)
C10_NonIncreasing ==
    \A k \in 1..(Len(ResultRows) - 1) :
        ResultRows[k].match_score >= ResultRows[k + 1].match_score

C10_TiesInCatalogOrder ==
    \A k \in 1..(Len(ResultRows) - 1) :
        ResultRows[k].match_score = ResultRows[k + 1].match_score
            => ResultRows[k].idx < ResultRows[k + 1].idx

C10_TruncationKeepsHighest ==
    \A i \in Qualifying \ Returned :
        \A k \in 1..Len(ResultRows) :
            search_call.scores[i] <= ResultRows[k].match_score

C10_OrderTieBreakTruncation ==
    Searched => /\ C10_NonIncreasing
                /\ C10_TiesInCatalogOrder
                /\ C10_TruncationKeepsHighest

-----------------------------------------------------------------------------
(* Vocabulary of the scoring claims *)

ItemQuery == Parsed(item_call.query)

\* the combined text of the row scored
ItemCombined ==
    Upper(ItemRow.description) \o " " \o Upper(ItemRow.part_number) \o " "
        \o Upper(ItemRow.enriched_description)

\* token_ratio > 0: some query token occurs in the combined text
ItemTokenHit ==
    \E k \in 1..Len(ItemQuery.tokens) : Contains(ItemCombined, ItemQuery.tokens[k])

ItemDiameterPresent ==
    \E k \in 1..Len(ItemQuery.diameters) : Contains(ItemCombined, ItemQuery.diameters[k])

\* the same parsed query with no diameter extracted
WithoutDiameters(pq) == [pq EXCEPT !.diameters = <<>>]

\* the score the same row gets when no diameter is extracted, as returned and
\* before the override and the clamp
ItemScoreWithoutDiameter ==
    _score_item(WithoutDiameters(ItemQuery), ItemRow.description, ItemRow.part_number,
                ItemRow.enriched_description, item_call.fuzzy_best)

ItemRawWithoutDiameter ==
    RawScore(WithoutDiameters(ItemQuery), ItemRow.description, ItemRow.part_number,
             ItemRow.enriched_description, item_call.fuzzy_best)

ItemRaw ==
    RawScore(ItemQuery, ItemRow.description, ItemRow.part_number,
             ItemRow.enriched_description, item_call.fuzzy_best)

SpecClamp(score) ==
    IF score > SpecScore(100) THEN SpecScore(100) ELSE IF score < 0 THEN 0 ELSE score

\* the case of C11: a query with a diameter, scored on a row with token_ratio > 0
C11_Case == ItemScored /\ ItemQuery.diameters # <<>> /\ ItemTokenHit

C11_Delta == IF ItemDiameterPresent THEN SpecScore(15) ELSE -SpecScore(10)

-----------------------------------------------------------------------------
(* C11, as stated: the returned score with a query diameter absent from the
   combined text is exactly 10 lower than the returned score with no diameter
   extracted, and exactly 15 higher with a diameter that is present, for every
   row with token_ratio > 0. *)
C11_ReturnedScoreShift ==
    C11_Case => item_score = ItemScoreWithoutDiameter + C11_Delta

(* C11, amended: the shift of -10 / +15 is on the score before the exact part
   number override and the clamp; the returned score is that shifted score
   clamped to [0, 100], and 100 when the part number matches exactly. *)
C11_RawScoreShift ==
    C11_Case =>
        /\ ItemRaw = ItemRawWithoutDiameter + C11_Delta
        /\ item_score =
              IF SpecExactMatch(item_call.query, ItemRow.part_number) THEN SpecScore(100)
              ELSE SpecClamp(ItemRawWithoutDiameter + C11_Delta)

\* a row that lacks the query's diameter scored, unclamped, 10 below the score
\* it gets without the diameter
C11_Witness ==
    /\ C11_Case /\ ~ItemDiameterPresent
    /\ item_score > 0
    /\ item_score = ItemScoreWithoutDiameter - SpecScore(10)

-----------------------------------------------------------------------------
(* C12: _score_item returns a score in [0, 100] for every query and row,
   including when the bonuses raise the raw sum above 100 and when both
   penalties bring a low base below 0. *)
C12_ScoreInRange ==
    /\ ItemScored => item_score >= 0 /\ item_score <= SpecScore(100)
    /\ \A i \in 1..Len(search_call.scores) :
          search_call.scores[i] >= 0 /\ search_call.scores[i] <= SpecScore(100)

\* a row with a token hit whose raw sum, with both penalties, is below 0
C12_Witness ==
    /\ ItemScored /\ ItemTokenHit
    /\ ItemQuery.diameters # <<>> /\ ~ItemDiameterPresent
    /\ ItemRaw < 0
    /\ item_score = 0

\* a row whose raw sum, with the bonuses, is above 100
C12_WitnessAbove ==
    ItemScored /\ ItemRaw > SpecScore(100) /\ item_score = SpecScore(100)

-----------------------------------------------------------------------------
(* C16: parse_query("s6 wire 0.045") yields diameters = ["045"] and a token
   list that contains the expansion tokens "70S" and "6", in that order, and
   does not contain "WIRE"; no token of any ParsedQuery is a stop word or
   empty. *)
SpecStopWords ==
    {"WIRE", "ROD", "FILLER", "WELDING", "THE", "A", "AN", "FOR", "AND", "WITH", "OF"}

C16_ParseExample ==
    parse_call.made =>
        /\ parse_call.text = "s6 wire 0.045" =>
              /\ parse_call.pq.diameters = <<"045">>
              /\ \E i, j \in 1..Len(parse_call.pq.tokens) :
                    /\ i < j
                    /\ parse_call.pq.tokens[i] = "70S"
                    /\ parse_call.pq.tokens[j] = "6"
              /\ \A i \in 1..Len(parse_call.pq.tokens) : parse_call.pq.tokens[i] # "WIRE"
        /\ \A i \in 1..Len(parse_call.pq.tokens) :
              /\ parse_call.pq.tokens[i] \notin SpecStopWords
              /\ parse_call.pq.tokens[i] # ""

\* the example has been parsed
C16_Witness ==
    /\ parse_call.made
    /\ parse_call.text = "s6 wire 0.045"
    /\ parse_call.pq.tokens = <<"70S", "6", "045">>
    /\ parse_call.pq.normalized = "70S 6 WIRE 045"

\* a text of stop words only has been parsed to no token
C16_WitnessStopWords ==
    /\ parse_call.made /\ parse_call.text = "the rod for a" /\ parse_call.pq.tokens = <<>>

-----------------------------------------------------------------------------
(* C18: find_variants returns only master rows whose part_number differs from
   the given, trimmed part number and which either start with its first 6
   characters or whose uppercased description contains the first 4 whitespace
   tokens of the uppercased given description; it returns at most 15 rows;
   each sibling's displayed price is its tier_price when that is positive,
   otherwise its list_price when that is positive, otherwise none. *)
VariantsCalled == variants_call.made

SpecTrimmed == Strip(variants_call.part_number)

SpecFirstSix == SubSeq(SpecTrimmed, 1, IF Len(SpecTrimmed) < 6 THEN Len(SpecTrimmed) ELSE 6)

\* the first 4 whitespace tokens of the uppercased given description
SpecFirstTokens ==
    LET tokens == Split(Upper(variants_call.description))
    IN  SubSeq(tokens, 1, IF Len(tokens) < 4 THEN Len(tokens) ELSE 4)

\* an uppercased description contains the tokens: every token, and the tokens
\* in a row, spaced as in the given description
SpecContainsTokens(description) ==
    /\ \A k \in 1..Len(SpecFirstTokens) : Contains(Upper(description), SpecFirstTokens[k])
    /\ \/ Contains(Upper(description), Join(SpecFirstTokens))
       \/ Contains(Upper(description), Upper(variants_call.description))

\* the master row a returned variant was made from
SpecIsMasterRow(v) ==
    \E i \in 1..Len(master) :
        /\ master[i].part_number = v.part_number
        /\ master[i].description = v.description
        /\ v.price = IF StrictlyPositive(master[i].tier_price) THEN <<master[i].tier_price>>
                     ELSE IF StrictlyPositive(master[i].list_price)
                          THEN <<master[i].list_price>>
                          ELSE <<>>

C18_VariantsAreSiblings ==
    VariantsCalled =>
        /\ Len(variants_result) <= 15
        /\ \A k \in 1..Len(variants_result) :
              /\ SpecIsMasterRow(variants_result[k])
              /\ variants_result[k].part_number # SpecTrimmed
              /\ \/ StartsWith(variants_result[k].part_number, SpecFirstSix)
                 \/ SpecContainsTokens(variants_result[k].description)

\* a family of 16 candidates was cut to 15; one sibling shows its list price
\* for want of a tier price and one shows none
C18_Witness ==
    /\ VariantsCalled
    /\ variants_call.part_number = "WELD70-A "
    /\ Len(master) > 16
    /\ Len(variants_result) = 15
    /\ \E k \in 1..Len(variants_result) :
          /\ variants_result[k].price = <<1000000>>
    /\ \E k \in 1..Len(variants_result) : variants_result[k].price = <<>>
    /\ \E k \in 1..Len(variants_result) : variants_result[k].price = <<900000>>

-----------------------------------------------------------------------------
(* C17: search_products, get_pricing and find_variants leave the row sets
   passed to them unchanged and keep no state between calls: two calls with
   equal arguments return equal results, whatever calls on other data were
   made in between. *)
C17_EqualCallsEqualResults ==
    \A i, j \in 1..Len(calls) :
        (i < j /\ calls[i].fn = calls[j].fn /\ calls[i].args = calls[j].args)
            => calls[i].result = calls[j].result

C17_CallKeepsRows ==
    calls' # calls =>
        /\ master' = master /\ end_user' = end_user /\ location' = location
        /\ catalog' = catalog

C17_PureCalls == [](C17_EqualCallsEqualResults) /\ [][C17_CallKeepsRows]_vars

\* a lookup, a search that returned rows, and the same lookup again
C17_Witness ==
    /\ Len(calls) = 3
    /\ calls[1].fn = "get_pricing" /\ calls[1].result.all_prices # <<>>
    /\ calls[2].fn = "search_products" /\ calls[2].result.rows # <<>>
    /\ calls[3].fn = "get_pricing" /\ calls[3].args = calls[1].args
    /\ calls[3].result = calls[1].result

-----------------------------------------------------------------------------
(* Vocabulary of the enrichment claims, stated on the last call, the call
   before it and the reference tables *)

Decoding    == enrich_call.fn = "decode_description"
DecodedText == enrich_call.result[1]

\* the text the rules read: trimmed and uppercased
SpecTrimmedUpper(x) == Strip(Upper(x))

\* the codes of PRODUCT_LINES that equal the text or are a prefix of it
\* followed by a space
SpecMatchingCodesOf(x) ==
    { i \in DOMAIN PRODUCT_LINES :
          \/ SpecTrimmedUpper(x) = PRODUCT_LINES[i].code
          \/ StartsWith(SpecTrimmedUpper(x), PRODUCT_LINES[i].code \o " ") }

\* the same, once per description
SpecMatchingTable == [desc \in DescArgs |-> SpecMatchingCodesOf(desc)]

SpecMatchingCodes(x) == SpecMatchingTable[x]

SpecLongest(x, i) ==
    /\ i \in SpecMatchingCodes(x)
    /\ \A j \in SpecMatchingCodes(x) : Len(PRODUCT_LINES[j].code) <= Len(PRODUCT_LINES[i].code)

\* some keyword-anywhere or starts-with rule applies to the trimmed text
SpecHardgoodsRule(x) ==
    \/ \E i \in DOMAIN HARDGOODS_CATEGORIES :
           AnyIn(HARDGOODS_CATEGORIES[i].keywords, SpecTrimmedUpper(x))
    \/ \E i \in DOMAIN _STARTSWITH_CATEGORIES :
           StartsWith(SpecTrimmedUpper(x), _STARTSWITH_CATEGORIES[i].prefix)

\* some regex fallback applies to the trimmed text
SpecRegexFallback(x) ==
    LET t == SpecTrimmedUpper(x)
    IN  \/ /\ Match(LeadingDiameter, t) # <<>>
           /\ InTable(DIAMETER_MAP, SubSeq(t, 1, 3))
        \/ /\ Match(LeadingFraction, t) # <<>>
           /\ InTable(FRACTION_DIAMETERS, Group(t, Match(LeadingFraction, t), 1, 3))
        \/ \E i \in DOMAIN VictorRules : \E k \in DOMAIN VictorRules[i].pats :
               Match(VictorRules[i].pats[k], t) # <<>>

\* the descriptions no rule applies to
SpecUnmatchedArgs ==
    { desc \in DescArgs :
          /\ SpecMatchingCodes(desc) = {}
          /\ ~SpecHardgoodsRule(desc)
          /\ ~SpecRegexFallback(desc) }

SpecUnmatched(x) == x \in SpecUnmatchedArgs

\* two calls of the same function on the same input
SpecRepeatedCall == enrich_prev.fn = enrich_call.fn /\ enrich_prev.desc = enrich_call.desc

-----------------------------------------------------------------------------
(* C13, as stated: decode_description(x) returns x itself whenever x matches
   no product-line code, no hardgoods rule and no regex fallback, inputs with
   leading or trailing whitespace included, and two calls on the same input
   return the same result. *)
C13_UnmatchedReturnsInput ==
    /\ Decoding /\ SpecUnmatched(enrich_call.desc) => DecodedText = enrich_call.desc
    /\ Decoding /\ SpecRepeatedCall => enrich_prev.result = enrich_call.result

(* C13, amended: for such an x decode_description returns x with its leading
   and trailing whitespace removed (x itself when it has none), and two calls
   on the same input return the same result. *)
C13_UnmatchedReturnsTrimmed ==
    /\ Decoding /\ SpecUnmatched(enrich_call.desc) => DecodedText = Strip(enrich_call.desc)
    /\ Decoding /\ SpecRepeatedCall => enrich_prev.result = enrich_call.result

\* an unmatched input with whitespace around it, decoded twice
C13_Witness ==
    /\ Decoding /\ SpecRepeatedCall
    /\ SpecUnmatched(enrich_call.desc)
    /\ enrich_call.desc # Strip(enrich_call.desc)
    /\ Strip(enrich_call.desc) # ""
    /\ DecodedText = Strip(enrich_call.desc)

\* an unmatched input without whitespace around it comes back as it is
C13_WitnessIdentity ==
    /\ Decoding /\ SpecUnmatched(enrich_call.desc)
    /\ enrich_call.desc = "zzz" /\ DecodedText = "zzz"

-----------------------------------------------------------------------------
(* C14: decode_description("AA 7018 1 8X14X50FHS") returns
   "Atom Arc 7018 | Stick Electrode (E7018) | 1/8\" | 14\" x 50 lb Hermetically
   Sealed": product line Atom Arc 7018, diameter 1/8", package 14" x 50 lb
   hermetically sealed. *)
C14_AtomArcExample ==
    Decoding /\ enrich_call.desc = "AA 7018 1 8X14X50FHS"
    => DecodedText =
         "Atom Arc 7018 | Stick Electrode (E7018) | 1/8\" | 14\" x 50 lb Hermetically Sealed"

\* what the call returns: the longer code AA 7018 1 takes the 1 of the fraction
C14_Returned ==
    Decoding /\ enrich_call.desc = "AA 7018 1 8X14X50FHS"
    => DecodedText =
         "Atom Arc 7018-1 | Stick Electrode (E7018-1) | 1/8\" | 14\" x 50 lb Hermetically Sealed"

C14_Reached == Decoding /\ enrich_call.desc = "AA 7018 1 8X14X50FHS"

-----------------------------------------------------------------------------
(* C15: decode_description("WELD 70S 6 045X44F") returns
   "Spoolarc Weld 70S-6 | MIG Wire (ER70S-6) | 0.045\" | 44 lb": full name,
   product type, diameter and package, four segments joined by " | ", the
   diameter and the package being separate segments. *)
C15_WeldExample ==
    Decoding /\ enrich_call.desc = "WELD 70S 6 045X44F"
    => /\ DecodedText = "Spoolarc Weld 70S-6 | MIG Wire (ER70S-6) | 0.045\" | 44 lb"
       /\ DecodedText = JoinWith(" | ", <<"Spoolarc Weld 70S-6", "MIG Wire (ER70S-6)",
                                         "0.045\"", "44 lb">>)

C15_Witness ==
    /\ Decoding /\ enrich_call.desc = "WELD 70S 6 045X44F"
    /\ Len(DecodedText) > Len("WELD 70S 6 045X44F")

-----------------------------------------------------------------------------
(* C19: _match_product_line returns the entry of the longest code of
   PRODUCT_LINES that equals the uppercased, trimmed description or is a
   prefix of it followed by a space (None when there is no such code); when a
   shorter and a longer code both match, the entry of the longer one is
   returned, and it is the one decode_description uses. *)
C19_LongestCodeWins ==
    /\ enrich_call.fn = "_match_product_line" =>
          IF SpecMatchingCodes(enrich_call.desc) = {}
          THEN enrich_call.result = <<>>
          ELSE \E i \in SpecMatchingCodes(enrich_call.desc) :
                  /\ SpecLongest(enrich_call.desc, i)
                  /\ enrich_call.result =
                        <<PRODUCT_LINES[i].full_name, PRODUCT_LINES[i].prod_type>>
    /\ Decoding =>
          \A i \in SpecMatchingCodes(enrich_call.desc) :
              SpecLongest(enrich_call.desc, i) /\ Len(PRODUCT_LINES[i].code) > 3
              => StartsWith(DecodedText, PRODUCT_LINES[i].full_name \o " | ")

\* three codes match (AA, AA 7018, AA 7018 1) and the longest is returned
C19_Witness ==
    /\ enrich_call.fn = "_match_product_line"
    /\ Cardinality(SpecMatchingCodes(enrich_call.desc)) = 3
    /\ enrich_call.result = <<"Atom Arc 7018-1", "Stick Electrode (E7018-1)">>

\* the longest code is the one decode_description uses
C19_WitnessDecode ==
    /\ Decoding
    /\ Cardinality(SpecMatchingCodes(enrich_call.desc)) = 3
    /\ StartsWith(DecodedText, "Atom Arc 7018 Moisture Resistant | ")

-----------------------------------------------------------------------------
(* C20: _extract_diameter returns the metric label (1.6mm for a description
   containing the metric code 1 6MM, matched with spaces stripped) whenever
   the description contains a known metric code and none of the 3-digit and
   fraction rules hits. *)
SpecMetricCodes(x) ==
    { i \in DOMAIN METRIC_DIAMETERS :
          Contains(RemoveChar(Upper(x), " "), RemoveChar(METRIC_DIAMETERS[i].code, " ")) }

SpecNoEarlierRule(x) ==
    /\ ThreeDigitHits(Upper(x)) = <<>>
    /\ FractionXHits(Upper(x)) = {}
    /\ FractionWordHits(Upper(x)) = {}

C20_Case ==
    /\ enrich_call.fn = "_extract_diameter"
    /\ SpecMetricCodes(enrich_call.desc) # {}
    /\ SpecNoEarlierRule(enrich_call.desc)

C20_MetricLabel ==
    C20_Case =>
        \E i \in SpecMetricCodes(enrich_call.desc) :
            enrich_call.result = <<METRIC_DIAMETERS[i].readable>>

\* what the call returns on such a description: None
C20_MetricNeverFound ==
    enrich_call.fn = "_extract_diameter" => MetricHits(Upper(enrich_call.desc)) = {}

C20_Reached == C20_Case /\ enrich_call.desc = "86 1 6MM" /\ enrich_call.result = <<>>

-----------------------------------------------------------------------------
(* The rules of _extract_diameter as the specification words them, each as
   the set of labels it can give for a description *)

\* (a) a code of the 3-digit table followed by X
SpecThreeDigitLabels(x) ==
    { DIAMETER_MAP[i].readable : i \in
        { i \in DOMAIN DIAMETER_MAP : Search(FractionX(DIAMETER_MAP[i].code), Upper(x)) # <<>> } }

\* (b) a known fraction code followed by X
SpecFractionXLabels(x) ==
    { FRACTION_DIAMETERS[i].readable : i \in FractionXHits(Upper(x)) }

\* (c) a known fraction code as a whole word
SpecFractionWordLabels(x) ==
    { FRACTION_DIAMETERS[i].readable : i \in FractionWordHits(Upper(x)) }

\* (d) a metric code, matched with the spaces stripped
SpecMetricLabels(x) ==
    { METRIC_DIAMETERS[i].readable : i \in SpecMetricCodes(x) }

\* the four rules, once per description
SpecDiameterRules ==
    [desc \in DescArgs |->
        [a |-> SpecThreeDigitLabels(desc), b |-> SpecFractionXLabels(desc),
         c |-> SpecFractionWordLabels(desc), d |-> SpecMetricLabels(desc)]]

\* the labels of the first rule of a, b, c, then last, that hits
SpecFirstHit(r, last) ==
    IF r.a # {} THEN r.a ELSE IF r.b # {} THEN r.b ELSE IF r.c # {} THEN r.c ELSE last

ExtractingDiameter == enrich_call.fn = "_extract_diameter"

(* C21: _extract_diameter checks its rules in the order (a) 3-digit code of the
   table followed by X, (b) known fraction code followed by X, (c) known
   fraction code as a whole word, (d) metric code, and returns the first hit:
   the result of a later rule is never returned when an earlier rule hits, and
   None is returned only when no rule hits. *)
C21_FirstHitReturned ==
    ExtractingDiameter =>
        LET r     == SpecDiameterRules[enrich_call.desc]
            first == SpecFirstHit(r, r.d)
        IN  IF first = {} THEN enrich_call.result = <<>>
            ELSE \E label \in first : enrich_call.result = <<label>>

\* what the calls return: rules (a), (b), (c) in this order, and None whenever
\* none of the three hits, a metric code in the description or not
C21_ThreeRulesInOrder ==
    ExtractingDiameter =>
        LET first == SpecFirstHit(SpecDiameterRules[enrich_call.desc], {})
        IN  IF first = {} THEN enrich_call.result = <<>>
            ELSE \E label \in first : enrich_call.result = <<label>>

\* a metric code and no earlier rule: None is returned
C21_Reached ==
    /\ ExtractingDiameter /\ enrich_call.desc = "1 6MM"
    /\ SpecDiameterRules["1 6MM"].d = {"1.6mm"}
    /\ enrich_call.result = <<>>

\* rule (b) gives 1/8" where rule (c) alone would give 1/16"
C21_ReachedOrder ==
    /\ ExtractingDiameter /\ enrich_call.desc = "1 16 1 8X14"
    /\ "1/16\"" \in SpecDiameterRules[enrich_call.desc].c
    /\ enrich_call.result = <<"1/8\"">>

-----------------------------------------------------------------------------
(* Vocabulary of the claims on the product-line output *)

\* the index in PRODUCT_LINES of the longest code that matches x
SpecLongestCode(x) == CHOOSE i \in SpecMatchingCodes(x) : SpecLongest(x, i)

\* every category of the two hardgoods lists
SpecCategories ==
    { HARDGOODS_CATEGORIES[i].category : i \in DOMAIN HARDGOODS_CATEGORIES }
    \cup { _STARTSWITH_CATEGORIES[i].category : i \in DOMAIN _STARTSWITH_CATEGORIES }

\* the text after the matched code, trimmed
SpecRemainder(x) ==
    Strip(SubSeq(SpecTrimmedUpper(x), Len(PRODUCT_LINES[SpecLongestCode(x)].code) + 1,
                 Len(SpecTrimmedUpper(x))))

\* per description with a product-line match: whether the code is short,
\* whether the remainder holds a size pattern, whether a hardgoods rule
\* matches, and the product-line output
SpecLineCase(x) ==
    LET line == PRODUCT_LINES[SpecLongestCode(x)]
    IN  [short    |-> Len(line.code) <= 3,
         sized    |-> SearchAny(SizePattern, SpecRemainder(x)) # <<>>,
         hardgood |-> SpecHardgoodsRule(x),
         name     |-> line.full_name,
         type     |-> line.prod_type,
         output   |-> ProductLineText(Strip(x), <<line.full_name, line.prod_type>>)]

SpecLineCases ==
    [desc \in { x \in DescArgs : SpecMatchingCodes(x) # {} } |-> SpecLineCase(desc)]

SpecLineMatched(x) == x \in DOMAIN SpecLineCases

\* the short-code guard applies
SpecGuarded(x) ==
    /\ SpecLineMatched(x)
    /\ SpecLineCases[x].short /\ ~SpecLineCases[x].sized /\ SpecLineCases[x].hardgood

\* '{category} | {description}' for some category of the lists
SpecHardgoodsOutput(x, text) ==
    \E category \in SpecCategories : text = category \o " | " \o Strip(x)

(* C22: when the matched product-line code has length <= 3, the remainder of
   the description holds no size pattern (3 digits + X, or fraction + X) and
   some hardgoods rule matches, decode_description returns
   '{category} | {description}'; in every other case with a product-line match
   it returns the product-line output. *)
C22_ShortCodeGuard ==
    Decoding /\ SpecLineMatched(enrich_call.desc) =>
        IF SpecGuarded(enrich_call.desc)
        THEN SpecHardgoodsOutput(enrich_call.desc, DecodedText)
        ELSE DecodedText = SpecLineCases[enrich_call.desc].output

\* DS with a cable is a hardgoods item, AA 7018 with a cable stays a product line
C22_Witness ==
    /\ Decoding /\ enrich_call.desc = " DS CABLE " /\ SpecGuarded(enrich_call.desc)
    /\ DecodedText = "Cable | DS CABLE"
    /\ enrich_prev.fn = "decode_description" /\ enrich_prev.desc = "AA 7018 CABLE"
    /\ ~SpecGuarded(enrich_prev.desc) /\ SpecLineCases[enrich_prev.desc].hardgood
    /\ enrich_prev.result = <<"Atom Arc 7018 | Stick Electrode (E7018)">>

\* a short code with a size pattern in the remainder stays a product line
C22_WitnessSized ==
    /\ Decoding /\ enrich_call.desc = "SW NOZZLE 035X2"
    /\ SpecLineCases[enrich_call.desc].short /\ SpecLineCases[enrich_call.desc].sized
    /\ SpecLineCases[enrich_call.desc].hardgood
    /\ DecodedText = "Sureweld | Stick Electrode | 0.035\""

-----------------------------------------------------------------------------
(* Vocabulary of the claims on the hardgoods lists *)

CategorizingHardgood == enrich_call.fn = "_categorize_hardgood"

\* the multi-word keywords of HARDGOODS_CATEGORIES that occur in x, each with
\* the index of its rule
SpecPhrasesOf(x) ==
    { p \in UNION { { [rule |-> j, phrase |-> HARDGOODS_CATEGORIES[j].keywords[k]] :
                        k \in DOMAIN HARDGOODS_CATEGORIES[j].keywords } :
                    j \in DOMAIN HARDGOODS_CATEGORIES } :
          Contains(p.phrase, " ") /\ Contains(Upper(x), p.phrase) }

\* the rules before the rule of phrase p that have a keyword which p contains
\* and give another category: generic rules placed before the specific one
SpecGenericBefore(p) ==
    { i \in 1..(p.rule - 1) :
          /\ HARDGOODS_CATEGORIES[i].category # HARDGOODS_CATEGORIES[p.rule].category
          /\ \E k \in DOMAIN HARDGOODS_CATEGORIES[i].keywords :
                 Contains(p.phrase, HARDGOODS_CATEGORIES[i].keywords[k]) }

\* per description: its phrases that a generic rule precedes
SpecShadowedPhrases ==
    [desc \in DescArgs |-> { p \in SpecPhrasesOf(desc) : SpecGenericBefore(p) # {} }]

(* C23: in the ordered hardgoods keyword list a specific multi-word phrase
   precedes every generic keyword that it contains, so a description that
   contains the specific phrase is categorized by the specific rule
   (WELDING CABLE yields Welding Cable, QUICK CONNECTOR yields Quick
   Connector, HEAT SHIELD yields Heat Shield) and every listed category can be
   produced. *)
C23_SpecificPhraseFirst ==
    CategorizingHardgood =>
        /\ SpecShadowedPhrases[enrich_call.desc] = {}
        /\ Contains(Upper(enrich_call.desc), "WELDING CABLE")
               => enrich_call.result = <<"Welding Cable">>
        /\ Contains(Upper(enrich_call.desc), "QUICK CONNECTOR")
               => enrich_call.result = <<"Quick Connector">>
        /\ Contains(Upper(enrich_call.desc), "HEAT SHIELD")
               => enrich_call.result = <<"Heat Shield">>

\* what the calls return: the category of the generic keyword listed first
C23_GenericReturned ==
    CategorizingHardgood =>
        /\ Contains(Upper(enrich_call.desc), "WELDING CABLE") => enrich_call.result = <<"Cable">>
        /\ Contains(Upper(enrich_call.desc), "QUICK CONNECTOR")
               => enrich_call.result = <<"Connector">>
        /\ Contains(Upper(enrich_call.desc), "HEAT SHIELD") => enrich_call.result = <<"Shield">>

C23_Reached ==
    /\ CategorizingHardgood /\ enrich_call.desc = "WELDING CABLE 2 0"
    /\ \E p \in SpecShadowedPhrases[enrich_call.desc] : p.phrase = "WELDING CABLE"
    /\ enrich_call.result = <<"Cable">>

-----------------------------------------------------------------------------
\* the keyword-anywhere rules and the starts-with rules that match the text t
SpecKeywordRules(t) ==
    { i \in DOMAIN HARDGOODS_CATEGORIES : AnyIn(HARDGOODS_CATEGORIES[i].keywords, t) }

SpecPrefixRules(t) ==
    { i \in DOMAIN _STARTSWITH_CATEGORIES : StartsWith(t, _STARTSWITH_CATEGORIES[i].prefix) }

\* the category of the first keyword rule, else of the first prefix rule, and
\* whether rules of both lists match
SpecFirstCategory(t) ==
    LET keyword == SpecKeywordRules(t)
        prefix  == SpecPrefixRules(t)
    IN  [category |-> IF keyword # {} THEN <<HARDGOODS_CATEGORIES[FirstOf(keyword)].category>>
                      ELSE IF prefix # {}
                      THEN <<_STARTSWITH_CATEGORIES[FirstOf(prefix)].category>>
                      ELSE <<>>,
         both     |-> keyword # {} /\ prefix # {}]

\* per description: for the text as passed and for the trimmed text
SpecFirstCategories ==
    [desc \in DescArgs |->
        LET passed == SpecFirstCategory(Upper(desc))
        IN  [passed  |-> passed.category,
             trimmed |-> IF Strip(desc) = desc THEN passed.category
                         ELSE SpecFirstCategory(SpecTrimmedUpper(desc)).category,
             both    |-> passed.both]]

(* C24: _categorize_hardgood tries every keyword-anywhere rule in list order
   before any starts-with rule and returns the category of the first rule that
   matches (None when none does); for a description without a product-line
   match that a hardgoods rule matches, decode_description returns
   '{category} | {description}', the description being the trimmed input in
   its own case and whole ("CONTACT TIP HD 035" gives
   "Contact Tip | CONTACT TIP HD 035"). *)
C24_KeywordsThenPrefixes ==
    /\ CategorizingHardgood =>
           enrich_call.result = SpecFirstCategories[enrich_call.desc].passed
    /\ Decoding /\ ~SpecLineMatched(enrich_call.desc)
                /\ SpecFirstCategories[enrich_call.desc].trimmed # <<>> =>
           DecodedText = SpecFirstCategories[enrich_call.desc].trimmed[1]
                         \o " | " \o Strip(enrich_call.desc)
    /\ Decoding /\ enrich_call.desc = "CONTACT TIP HD 035" =>
           DecodedText = "Contact Tip | CONTACT TIP HD 035"

\* HOSE CABLE starts with the prefix HOSE and holds the keyword CABLE: the
\* keyword rule gives the category; then the example of the claim is decoded
C24_Witness ==
    /\ Decoding /\ enrich_call.desc = "CONTACT TIP HD 035"
    /\ DecodedText = "Contact Tip | CONTACT TIP HD 035"
    /\ enrich_prev.fn = "_categorize_hardgood" /\ enrich_prev.desc = "HOSE CABLE"
    /\ SpecFirstCategories[enrich_prev.desc].both
    /\ enrich_prev.result = <<"Cable">>

\* a prefix rule alone, on a description in mixed case with a trailing blank
C24_WitnessPrefix ==
    /\ Decoding /\ enrich_call.desc = "Tip 12 "
    /\ SpecKeywordRules(SpecTrimmedUpper(enrich_call.desc)) = {}
    /\ DecodedText = "Tip | Tip 12"

-----------------------------------------------------------------------------
(* Vocabulary of the claim on the rule chain *)

\* the labels the regex fallbacks put in front of their output
SpecFallbackLabels ==
    {"Hardfacing/Specialty Wire", "Bare Rod / Brazing Alloy", "Horseshoe Bare Rod",
     "Rod / Filler"} \cup { VictorRules[i].label : i \in DOMAIN VictorRules }

\* text is the output of a regex fallback: one of their labels, then more
SpecFallbackOutput(text) ==
    \E label \in SpecFallbackLabels : StartsWith(text, label \o " | ")

\* text carries a label that only a regex fallback gives
SpecFallbackOnlyOutput(text) ==
    \E label \in SpecFallbackLabels \ SpecCategories : StartsWith(text, label \o " | ")

\* per description: which rules of the chain apply to it
SpecChain ==
    [desc \in DescArgs |->
        [line     |-> SpecMatchingCodes(desc) # {},
         hardgood |-> SpecFirstCategories[desc].trimmed # <<>>,
         fallback |-> SpecRegexFallback(desc)]]

(* C25: decode_description applies its rules in the order product-line match,
   hardgoods categorization, regex fallbacks, identity, and the first success
   wins: a description with a product-line match gets the product-line output
   (or, under the short-code guard, the hardgoods output), else one with a
   hardgoods rule the hardgoods output, else one with a regex fallback the
   fallback output, else the trimmed text; an output with a label of the regex
   fallbacks alone (Hardfacing/Specialty Wire, Rod / Filler, Plasma Consumable)
   is produced only for a description that matches no product-line code and no
   hardgoods rule. *)
C25_RuleChainOrder ==
    Decoding /\ Strip(enrich_call.desc) # "" =>
        LET chain == SpecChain[enrich_call.desc]
        IN  /\ IF chain.line
               THEN \/ DecodedText = SpecLineCases[enrich_call.desc].output
                    \/ /\ SpecGuarded(enrich_call.desc)
                       /\ SpecHardgoodsOutput(enrich_call.desc, DecodedText)
               ELSE IF chain.hardgood
               THEN DecodedText = SpecFirstCategories[enrich_call.desc].trimmed[1]
                                  \o " | " \o Strip(enrich_call.desc)
               ELSE IF chain.fallback
               THEN SpecFallbackOutput(DecodedText)
               ELSE DecodedText = Strip(enrich_call.desc)
            /\ SpecFallbackOnlyOutput(DecodedText) => ~chain.line /\ ~chain.hardgood

\* 50 AMP CABLE fits the amp fallback and the cable rule and is a hardgoods
\* item; 50 AMP XT fits the fallback alone
C25_Witness ==
    /\ Decoding /\ enrich_call.desc = "50 AMP CABLE"
    /\ SpecChain[enrich_call.desc] = [line |-> FALSE, hardgood |-> TRUE, fallback |-> TRUE]
    /\ DecodedText = "Cable | 50 AMP CABLE"
    /\ enrich_prev.fn = "decode_description" /\ enrich_prev.desc = "50 AMP XT"
    /\ SpecChain[enrich_prev.desc] = [line |-> FALSE, hardgood |-> FALSE, fallback |-> TRUE]
    /\ enrich_prev.result = <<"Plasma Consumable | 50 AMP XT">>

\* 86 DEG HEAD fits the degree-head fallback and the product line 86
C25_WitnessLine ==
    /\ Decoding /\ enrich_call.desc = "86 DEG HEAD"
    /\ SpecChain[enrich_call.desc].line /\ SpecChain[enrich_call.desc].fallback
    /\ DecodedText = "Spoolarc 86 | MIG Wire (ER70S-6)"

-----------------------------------------------------------------------------
(* C26: if no query token occurs as a substring of the row's combined text
   (token_ratio = 0, which includes a parsed query with no tokens),
   _score_item returns exactly 0: neither the fuzzy term nor a bonus, a
   penalty or the exact part number override contributes to the result. *)
C26_NoTokenHitScoresZero ==
    /\ ItemScored /\ ~ItemTokenHit => item_score = 0
    /\ ItemScored /\ ItemQuery.tokens = <<>> => item_score = 0

\* a row without any token hit whose fuzzy value is the highest one and whose
\* terms after the early return would sum to more than 0
C26_Witness ==
    /\ ItemScored /\ ~ItemTokenHit
    /\ ItemQuery.tokens # <<>>
    /\ item_call.fuzzy_best = 100
    /\ ItemRaw > 0
    /\ item_score = 0

\* a parsed query with no tokens, scored with the highest fuzzy value
C26_WitnessNoTokens ==
    /\ ItemScored /\ ItemQuery.tokens = <<>>
    /\ item_call.fuzzy_best = 100
    /\ ItemRaw > 0
    /\ item_score = 0

-----------------------------------------------------------------------------
(* Vocabulary of the claim on the 36-inch override *)

\* the part of a product type from its first "(" on, "" without one
SpecAnnotation(type) ==
    LET open == { i \in 1..Len(type) : Ch(type, i) = "(" }
    IN  IF open = {} THEN ""
        ELSE LET first == CHOOSE i \in open : \A j \in open : i <= j
             IN  SubSeq(type, first, Len(type))

\* the type the 36-inch override gives to a description with a product-line match
SpecOverrideCase(x) ==
    LET type == SpecLineCases[x].type
        x36  == Contains(SpecTrimmedUpper(x), "X36")
        tig  == Contains(Upper(type), "TIG")
        note == SpecAnnotation(type)
    IN  [x36      |-> x36,
         tig      |-> tig,
         note     |-> note,
         expected |-> IF x36 /\ ~tig
                      THEN (IF note = "" THEN "TIG Rod" ELSE "TIG Rod " \o note)
                      ELSE type]

SpecOverrideCases == [desc \in DOMAIN SpecLineCases |-> SpecOverrideCase(desc)]

\* text is 'name | type' alone or followed by further parts
SpecEmitsType(x, text) ==
    LET begin == SpecLineCases[x].name \o " | " \o SpecOverrideCases[x].expected
    IN  text = begin \/ StartsWith(text, begin \o " | ")

(* C27, as stated: for every description with a product-line match, the
   decoded text carries the type "TIG Rod" with the matched type's
   parenthetical annotation when the description contains "X36" and the
   matched type does not mention TIG, and the matched type unchanged
   otherwise. *)
C27_OverrideOnEveryLineMatch ==
    Decoding /\ SpecLineMatched(enrich_call.desc)
        => SpecEmitsType(enrich_call.desc, DecodedText)

(* C27, amended: the same for every description with a product-line match
   that the short-code guard does not turn into a hardgoods item; a guarded
   description is returned as '{category} | {description}' without any type,
   with or without "X36". *)
C27_OverrideOnLineOutput ==
    Decoding /\ SpecLineMatched(enrich_call.desc) =>
        IF SpecGuarded(enrich_call.desc)
        THEN SpecHardgoodsOutput(enrich_call.desc, DecodedText)
        ELSE SpecEmitsType(enrich_call.desc, DecodedText)

\* a MIG wire cut to 36 inches is a TIG rod with the alloy kept; a TIG type
\* with X36 was left unchanged by the call before
C27_Witness ==
    /\ Decoding /\ enrich_call.desc = "WELD 70S 6 045X36"
    /\ SpecOverrideCases[enrich_call.desc].x36 /\ ~SpecOverrideCases[enrich_call.desc].tig
    /\ SpecOverrideCases[enrich_call.desc].note = "(ER70S-6)"
    /\ DecodedText = "Spoolarc Weld 70S-6 | TIG Rod (ER70S-6) | 0.045\""
    /\ enrich_prev.fn = "decode_description" /\ enrich_prev.desc = "WELD 70S 6 TIG 1 16X36"
    /\ SpecOverrideCases[enrich_prev.desc].x36 /\ SpecOverrideCases[enrich_prev.desc].tig
    /\ enrich_prev.result = <<"Spoolarc Weld 70S-6 TIG | TIG Rod (ER70S-6) | 1/16\"">>

\* a type without a parenthesis becomes "TIG Rod" alone
C27_WitnessPlain ==
    /\ Decoding /\ enrich_call.desc = "DS X36"
    /\ SpecOverrideCases[enrich_call.desc].note = ""
    /\ SpecLineCases[enrich_call.desc].type # "TIG Rod"
    /\ DecodedText = "Dual Shield | TIG Rod"

\* a description without X36 keeps the matched type
C27_WitnessUnchanged ==
    /\ Decoding /\ ~SpecGuarded(enrich_call.desc) /\ SpecLineMatched(enrich_call.desc)
    /\ ~SpecOverrideCases[enrich_call.desc].x36
    /\ ~SpecOverrideCases[enrich_call.desc].tig
    /\ SpecOverrideCases[enrich_call.desc].note # ""
    /\ SpecEmitsType(enrich_call.desc, DecodedText)

-----------------------------------------------------------------------------
(* Vocabulary of the claim on the alloy codes *)

Parsing == parse_call.made

\* the texts of group 1 of the alloy-pattern matches in the normalized query,
\* in the order found
SpecAlloyMatches(pq) == Groups(pq.normalized, FindIter(AlloyPattern, pq.normalized, 1), 3, 8)

\* the code of a match: uppercased, hyphens removed
SpecAlloyCode(matched) == RemoveChar(Upper(matched), "-")

SpecAlloyKept(matched) ==
    SpecAlloyCode(matched) \in _KNOWN_ALLOYS \/ Len(SpecAlloyCode(matched)) >= 3

\* the matches of each parsed text, evaluated once
SpecAlloyTable == [text \in ParseArgs |-> SpecAlloyMatches(Parsed(text))]

ParsedMatches == SpecAlloyTable[parse_call.text]

\* the same parsed query with no alloy kept
WithoutAlloys(pq) == [pq EXCEPT !.alloys = <<>>]

ItemRawWithoutAlloys ==
    RawScore(WithoutAlloys(ItemQuery), ItemRow.description, ItemRow.part_number,
             ItemRow.enriched_description, item_call.fuzzy_best)

\* some kept alloy, hyphens removed, occurs in the combined text, hyphens removed
ItemAlloyPresent ==
    \E k \in 1..Len(ItemQuery.alloys) :
        Contains(RemoveChar(ItemCombined, "-"), RemoveChar(ItemQuery.alloys[k], "-"))

C28_Delta ==
    IF ItemQuery.alloys = <<>> THEN 0
    ELSE IF ItemAlloyPresent THEN SpecScore(12) ELSE -SpecScore(8)

(* C28: parse_query keeps an alloy-pattern match as an alloy if and only if
   its code (uppercased, hyphens removed) is in the known-alloy set or has
   length >= 3; a match with a shorter code that is not a known alloy is never
   in ParsedQuery.alloys; the alloy bonus or penalty enters the score only when
   at least one alloy was kept. *)
C28_AlloysKept ==
    /\ Parsing =>
          /\ parse_call.pq.alloys = UpperAll(SelectSeq(ParsedMatches, SpecAlloyKept))
          /\ \A i \in 1..Len(ParsedMatches) :
                (\E k \in 1..Len(parse_call.pq.alloys) :
                    parse_call.pq.alloys[k] = Upper(ParsedMatches[i]))
                <=> SpecAlloyKept(ParsedMatches[i])
    /\ ItemScored /\ ItemTokenHit =>
          /\ ItemRaw = ItemRawWithoutAlloys + C28_Delta
          /\ ItemQuery.alloys = <<>> => ItemRaw = ItemRawWithoutAlloys

\* "e70-wxyz 12-3 7018": the match "70-" has the code "70" and is dropped,
\* "12-3" is kept for its three characters, "7018" is a known alloy
C28_Witness ==
    /\ Parsing /\ parse_call.text = "e70-wxyz 12-3 7018"
    /\ ParsedMatches = <<"70-", "12-3", "7018">>
    /\ ~SpecAlloyKept(ParsedMatches[1])
    /\ parse_call.pq.alloys = <<"12-3", "7018">>

\* "cable 12" on the row with part number "AB 12": the match "12" is dropped,
\* and the row, which contains "12", gets no alloy bonus
C28_WitnessNoBonus ==
    /\ ItemScored /\ ItemTokenHit
    /\ item_call.query = "cable 12"
    /\ ItemQuery.alloys = <<>>
    /\ Contains(ItemCombined, "12")
    /\ ItemRaw = ItemRawWithoutAlloys

\* a kept alloy that the row lacks costs 8 points
C28_WitnessPenalty ==
    /\ ItemScored /\ ItemTokenHit
    /\ ItemQuery.alloys # <<>> /\ ~ItemAlloyPresent
    /\ ItemRaw = ItemRawWithoutAlloys - SpecScore(8)

-----------------------------------------------------------------------------
(* Vocabulary of the claim on the quote basket *)

\* the positions of the basket that hold the part number
SpecItemsOf(part_number) == { i \in DOMAIN basket : basket[i].part_number = part_number }

\* only _add_to_basket and _remove_from_basket have written the item: its
\* quantity field was not edited since the part entered the basket
SpecOnlyAddsAndRemoves(part_number) == ~basket_log[part_number].edited

\* the step is a call of _add_to_basket for a part that is in the basket
SpecAddOfPresent ==
    /\ basket_call'.op = "add"
    /\ basket_log' # basket_log
    /\ SpecItemsOf(basket_call'.part_number) # {}

\* the basket after the step differs from the basket before it in the qty of
\* the items of the part alone, which is one higher
SpecOnlyQtyChanged ==
    /\ DOMAIN basket' = DOMAIN basket
    /\ \A i \in DOMAIN basket :
          basket'[i] = IF basket[i].part_number = basket_call'.part_number
                       THEN [basket[i] EXCEPT !.qty = @ + 1]
                       ELSE basket[i]

SpecBasketShape ==
    /\ \A p \in BasketParts : Cardinality(SpecItemsOf(p)) <= 1
    /\ \A i \in DOMAIN basket :
          /\ basket[i].qty >= 1
          /\ SpecOnlyAddsAndRemoves(basket[i].part_number)
                => basket[i].qty = basket_log[basket[i].part_number].adds

(* C29: after any sequence of _add_to_basket and _remove_from_basket calls
   from an empty basket, the basket holds at most one item per part number,
   every item has qty >= 1, equal to the number of adds of the part since it
   was last removed, and an add of a part that is in the basket changes only
   the qty of its item: unit_price, source and description of that item and
   every other item stay as they are. *)
C29_BasketItems == [] SpecBasketShape /\ [][SpecAddOfPresent => SpecOnlyQtyChanged]_vars

\* a part added three times, the last time from a card with another price, and
\* another part added once: the first keeps the price of its first add
C29_Witness ==
    /\ Len(basket) = 2
    /\ basket[1].part_number = "AB12" /\ basket[1].qty = MaxAdds
    /\ basket[1].unit_price = 1250 /\ basket[1].source = "master"
    /\ basket[2].part_number = "W70" /\ basket[2].qty = 1
    /\ basket[2].unit_price = 990
    /\ \A i \in DOMAIN basket : SpecOnlyAddsAndRemoves(basket[i].part_number)
    /\ basket_call = [op |-> "add", part_number |-> "AB12", unit_price |-> 990]

-----------------------------------------------------------------------------
(* Vocabulary of the claim on unrelated siblings *)

\* the row's part number starts with the first 6 characters of the given part
\* number, of which there is at least one
SpecSharesPrefix(part_number) ==
    SpecFirstSix # "" /\ StartsWith(part_number, SpecFirstSix)

\* the row's description contains the first tokens of the given description,
\* of which there is at least one
SpecSharesIdentity(description) ==
    SpecFirstTokens # <<>> /\ SpecContainsTokens(description)

\* a call with an empty part number or an empty description
SpecNothingGiven == SpecFirstSix = "" \/ variants_call.description = ""

(* C30: find_variants returns a sibling only if it shares the part-number
   prefix or the description identity of the given part; with a description
   of fewer than 4 tokens, an empty description or an empty part number the
   result still holds no master row unrelated to the given part. *)
C30_NoUnrelatedSibling ==
    VariantsCalled =>
        \A k \in 1..Len(variants_result) :
            \/ SpecSharesPrefix(variants_result[k].part_number)
            \/ SpecSharesIdentity(variants_result[k].description)

(* What the code does on such a call: every row of the partition whose part
   number differs from the given one is a candidate, and the first 15 of them
   are returned. *)
C30_EveryOtherRowReturned ==
    VariantsCalled /\ SpecNothingGiven /\ variants_call.distributor_key = LoadedKey =>
        LET others == SelectSeq(master, LAMBDA row : row.part_number # SpecTrimmed)
        IN  /\ Len(variants_result) = IF Len(others) < VariantCap THEN Len(others) ELSE VariantCap
            /\ \A k \in 1..Len(variants_result) :
                  variants_result[k].part_number = others[k].part_number

\* the call with an empty description on the family file: 15 rows that share
\* nothing with the part
C30_Reached ==
    /\ VariantsCalled /\ variants_call.description = ""
    /\ Len(variants_result) = VariantCap
    /\ \A k \in 1..Len(variants_result) :
          /\ ~SpecSharesPrefix(variants_result[k].part_number)
          /\ ~SpecSharesIdentity(variants_result[k].description)

\* the same with an empty part number
C30_ReachedNoPartNumber ==
    /\ VariantsCalled /\ SpecFirstSix = "" /\ variants_call.description # ""
    /\ Len(variants_result) = VariantCap
    /\ \A k \in 1..Len(variants_result) :
          /\ ~SpecSharesPrefix(variants_result[k].part_number)
          /\ ~SpecSharesIdentity(variants_result[k].description)

=============================================================================
